---- MODULE Spec2Model ----
(***************************************************************************)
(* Replay driver of the Uniswap-v3 fee analyzer: PoolAnalyzer::initialize  *)
(* loads and sorts the event files, PoolAnalyzer::run_simulation replays   *)
(* the sorted stream against a forked node, keeps the per-token-id ledger  *)
(* of position segments and writes the segments at the end.                *)
(*                                                                         *)
(* The forked node (anvil + the Uniswap contracts) is not part of the      *)
(* repository.  It is modelled as a record `node` holding the liquidity of *)
(* each position, the next NFT id, the fees owed and the pool tick; what   *)
(* it answers to a transaction (success or failure, the log it emits) is a *)
(* nondeterministic choice made inside the handler that submits it.        *)
(***************************************************************************)
EXTENDS Integers, Sequences, FiniteSets, TLC

VARIABLES
    input_files,    \* the nine converted CSV files, one sequence per event type
    events,         \* PoolAnalyzer.pool_simulation_events (sorted by pool_events)
    pos,            \* index in events of the item event_iter.next() returns next
    status,         \* "init" | "ready" | "loop" | "done" | "error" | "panic"
    err,            \* message of the error that ended the run ("" when none)
    pool_config,    \* PoolConfig: [clanker_is_token0]
    token_id_map,   \* recorded token id -> live token id
    position_info,  \* live token id -> sequence of PositionInfo
    node,           \* the forked node
    last_tx,        \* the last verified replay: [op, event, log, verified]
    last_op,        \* live token id -> its last ledger action and the event
                    \* that made it: [kind, liquidity, before, amount0, amount1]
    processed,      \* indices of events, in the order the loop took them
    write_called,   \* write_positions_to_csv has been called
    output,         \* the rows handed to write_positions_to_csv
    build,          \* the build profile of the binary: "debug" | "release"
    call            \* one replay primitive followed attempt by attempt:
                    \* [prim, pc, attempts, submitted, receipt, d, result]

vars == << input_files, events, pos, status, err, pool_config, token_id_map,
           position_info, node, last_tx, last_op, processed, write_called, output,
           build, call >>

----------------------------------------------------------------------------
(* Bounds of the model *)

\* number of items (fused pairs or single events) after the head of a stream
MaxItems == 3

\* u128::MAX, scaled down: liquidity is kept in 0..U128_MAX
U128_MAX == 3

----------------------------------------------------------------------------
(* simulation_events.rs: the event model *)

EventType == { "PoolCreated", "Mint", "Burn", "Swap", "CollectPool", "CollectNpm",
               "IncreaseLiquidity", "DecreaseLiquidity", "Initialize" }

\* Event::event_type
event_type(e) == e.type

\* a faulty comparison that forgets the block
cmp_log_index_only(a, b) ==
    IF a.log_index < b.log_index THEN "Less"
    ELSE IF a.log_index > b.log_index THEN "Greater"
    ELSE "Equal"

\* impl Ord for SimulationEvent: block first, log_index as tie-break
cmp(a, b) ==
    IF a.block < b.block THEN "Less"
    ELSE IF a.block > b.block THEN "Greater"
    ELSE IF a.log_index < b.log_index THEN "Less"
    ELSE IF a.log_index > b.log_index THEN "Greater"
    ELSE "Equal"

\* a faulty search that returns the last event of the type
find_last_event(evs, t) ==
    IF \E i \in 1..Len(evs) : event_type(evs[i].event) = t
    THEN CHOOSE i \in 1..Len(evs) :
            /\ event_type(evs[i].event) = t
            /\ \A j \in (i + 1)..Len(evs) : event_type(evs[j].event) # t
    ELSE 0

\* Iterator::find from position i on: the index of the first event whose
\* event_type is t, 0 for None
RECURSIVE find(_, _, _)
find(evs, t, i) ==
    IF i > Len(evs) THEN 0
    ELSE IF event_type(evs[i].event) = t THEN i
    ELSE find(evs, t, i + 1)

\* find_first_event: index of the first event of the type, 0 when there is none
find_first_event(evs, t) == find(evs, t, 1)

\* impl TryFrom<SimulationEvent> for each of the nine payload types
try_from(event, variant) ==
    IF event_type(event.event) = variant
    THEN [ok |-> TRUE, err |-> "", value |-> event.event]
    ELSE [ok |-> FALSE, err |-> "Event is not " \o variant, value |-> [type |-> "None"]]

----------------------------------------------------------------------------
(* csv_converter.rs: pool_events *)

\* the order in which pool_events concatenates the files
FileOrder == << "Initialize", "PoolCreated", "Mint", "Burn", "CollectPool", "Swap",
                "CollectNpm", "IncreaseLiquidity", "DecreaseLiquidity" >>

RECURSIVE concat(_, _)
concat(files, k) ==
    IF k > Len(FileOrder) THEN << >>
    ELSE files[FileOrder[k]] \o concat(files, k + 1)

\* one step of the stable sort: e goes after every element that is not greater
RECURSIVE insert_sorted(_, _)
insert_sorted(s, e) ==
    IF s = << >> THEN << e >>
    ELSE IF cmp(s[Len(s)], e) = "Greater"
         THEN Append(insert_sorted(SubSeq(s, 1, Len(s) - 1), e), s[Len(s)])
         ELSE Append(s, e)

\* Vec::sort (stable) with SimulationEvent's Ord
RECURSIVE sort(_)
sort(s) ==
    IF s = << >> THEN << >>
    ELSE insert_sorted(sort(SubSeq(s, 1, Len(s) - 1)), s[Len(s)])

\* a faulty length check that never fires
collect_lengths_never_differ(files) ==
    Len(files["CollectNpm"]) # Len(files["CollectNpm"])

\* the length check of pool_events
collect_lengths_differ(files) ==
    Len(files["CollectNpm"]) # Len(files["CollectPool"])

pool_events(files) ==
    IF collect_lengths_differ(files)
    THEN [ok |-> FALSE, events |-> << >>]
    ELSE [ok |-> TRUE, events |-> sort(concat(files, 1))]

----------------------------------------------------------------------------
(* The inputs: event payloads, items and streams *)

PoolCreated(weth0) == [type |-> "PoolCreated", token0_is_weth |-> weth0]
Initialize == [type |-> "Initialize", sqrtPriceX96 |-> 10]
\* a mint of liquidity a puts in a of token0 and 2a of token1
Mint(a) == [type |-> "Mint", amount |-> a, amount0 |-> a, amount1 |-> 2 * a,
            tickLower |-> -1, tickUpper |-> 1]
\* a burn of liquidity a takes out 2a of token0 and a of token1
Burn(a) == [type |-> "Burn", amount |-> a, amount0 |-> 2 * a, amount1 |-> a,
            tickLower |-> -1, tickUpper |-> 1]
IncreaseLiquidity(t, l, a) ==
    [type |-> "IncreaseLiquidity", tokenId |-> t, liquidity |-> l,
     amount0 |-> a, amount1 |-> 2 * a,
     amount_0_desired |-> a, amount_1_desired |-> 2 * a]
DecreaseLiquidity(t, l) ==
    [type |-> "DecreaseLiquidity", tokenId |-> t, liquidity |-> l,
     amount0 |-> 2 * l, amount1 |-> l]
Swap == [type |-> "Swap", amount0 |-> 2, amount1 |-> -1, sqrtPriceX96 |-> 9,
         liquidity |-> 1, tick |-> -1]
CollectPool == [type |-> "CollectPool", amount0 |-> 0, amount1 |-> 0]
CollectNpm == [type |-> "CollectNpm", amount0 |-> 0, amount1 |-> 0]

\* the recorded token ids of the inputs
RecordedIds == {11, 12}

\* items that let the replay go on
CoreItems ==
    { << Mint(2), IncreaseLiquidity(11, 2, 2) >>,
      << Mint(1), IncreaseLiquidity(11, 1, 1) >>,
      << Mint(1), IncreaseLiquidity(11, 2, 1) >>,
      << Mint(1), IncreaseLiquidity(12, 1, 1) >>,
      << Burn(1), DecreaseLiquidity(11, 1) >>,
      << Burn(2), DecreaseLiquidity(11, 2) >>,
      << Burn(0), CollectPool >>,
      << Swap >>,
      << CollectNpm >> }

\* items taken only as the last of a stream
LastItems ==
    { << IncreaseLiquidity(11, 1, 1) >>,
      << DecreaseLiquidity(11, 1) >>,
      << Initialize >>,
      << PoolCreated(TRUE), Initialize >>,
      << PoolCreated(TRUE) >>,
      << Mint(1) >>,
      << Burn(1) >>,
      << Burn(1), CollectPool >> }

\* how a stream starts
Heads ==
    { << PoolCreated(TRUE), Initialize >>,
      << PoolCreated(FALSE), Initialize >>,
      << IncreaseLiquidity(11, 1, 1), DecreaseLiquidity(11, 1),
         PoolCreated(TRUE), Initialize >>,
      << >> }

RECURSIVE CoreStreams(_)
CoreStreams(n) ==
    IF n = 0 THEN { << >> }
    ELSE LET shorter == CoreStreams(n - 1)
         IN  shorter \cup { s \o i : s \in shorter, i \in CoreItems }

Bodies ==
    CoreStreams(MaxItems)
        \cup { s \o i : s \in CoreStreams(MaxItems - 1), i \in LastItems }

Streams == { h \o b : h \in Heads, b \in Bodies }

\* "perblock": two logs per block, log_index restarting in each block;
\* "tied": the two logs of a block carry the same log_index
KeyModes == { "perblock", "tied" }

envelope(payload, i, mode) ==
    [block |-> (i + 1) \div 2,
     log_index |-> IF mode = "tied" THEN 0 ELSE (i + 1) % 2,
     event |-> payload]

keyed(s, mode) == [i \in 1..Len(s) |-> envelope(s[i], i, mode)]

SelectType(s, t) == SelectSeq(s, LAMBDA e : event_type(e.event) = t)

\* the nine files a stream comes from
files_of(s, mode) == [t \in EventType |-> SelectType(keyed(s, mode), t)]

----------------------------------------------------------------------------
(* The forked node *)

\* the node right after the fork: no position, pool at tick 0, no fee growth
NodeInit == [liq |-> << >>, owed |-> << >>, next_id |-> 1, tick |-> 0,
             fee_growth0 |-> 0, fee_growth1 |-> 0]

\* slot0 of the pool
slot0(nd) == [sqrtPriceX96 |-> 10 + nd.tick, tick |-> nd.tick]

\* what the pool pays for liquidity l at its current tick: (amount0, amount1)
node_amounts(nd, l) == << l * (1 - nd.tick), l * (1 + nd.tick) >>

\* the router's answer to an exact-input sale of the base token
node_quote(nd, amount_in) == amount_in * (2 + nd.tick)

\* position-manager.mint: a new NFT holding the liquidity of the emitted log
node_mint(nd, log) ==
    [nd EXCEPT !.liq = Append(nd.liq, log.amount),
               !.owed = Append(nd.owed, << 0, 0 >>),
               !.next_id = nd.next_id + 1]

\* position-manager.increaseLiquidity
node_increase(nd, token_id, log) ==
    [nd EXCEPT !.liq[token_id] = @ + log.amount]

\* position-manager.decreaseLiquidity reverts unless 0 < liquidity <= position
node_can_decrease(nd, token_id, liquidity) ==
    /\ token_id \in 1..Len(nd.liq)
    /\ liquidity > 0
    /\ liquidity <= nd.liq[token_id]

\* a decrease credits what the pool pays to the position's owed tokens
node_decrease(nd, token_id, liquidity, log) ==
    [nd EXCEPT !.liq[token_id] = @ - liquidity,
               !.owed[token_id] = << @[1] + log.amount0, @[2] + log.amount1 >>]

\* position-manager.collect with u128::MAX on both sides drains the owed tokens
node_collect(nd, token_id) ==
    [nd EXCEPT !.owed[token_id] = << 0, 0 >>]

\* a swap moves the tick and pays its fee, in the input token, to every position
\* that holds liquidity
node_swap(nd, log) ==
    LET zero_for_one == log.amount0 > 0
    IN  [nd EXCEPT
           !.tick = log.tick,
           !.fee_growth0 = IF zero_for_one /\ \E i \in 1..Len(nd.liq) : nd.liq[i] > 0
                           THEN @ + 1 ELSE @,
           !.fee_growth1 = IF ~zero_for_one /\ \E i \in 1..Len(nd.liq) : nd.liq[i] > 0
                           THEN @ + 1 ELSE @,
           !.owed = [i \in 1..Len(nd.owed) |->
                       IF nd.liq[i] = 0 THEN nd.owed[i]
                       ELSE IF zero_for_one
                            THEN << nd.owed[i][1] + 1, nd.owed[i][2] >>
                            ELSE << nd.owed[i][1], nd.owed[i][2] + 1 >>]]

\* the logs the node may emit for a recorded Mint or Burn event: the recorded
\* one, or one that differs from it in the fields of d
MintFields == { "amount0", "amount1", "tickLower", "tickUpper", "amount" }

other_liquidity(a) == (a % U128_MAX) + 1

node_mint_log(e, d) ==
    [amount0   |-> IF "amount0" \in d THEN e.amount0 + 1 ELSE e.amount0,
     amount1   |-> IF "amount1" \in d THEN e.amount1 + 1 ELSE e.amount1,
     tickLower |-> IF "tickLower" \in d THEN e.tickLower - 1 ELSE e.tickLower,
     tickUpper |-> IF "tickUpper" \in d THEN e.tickUpper + 1 ELSE e.tickUpper,
     amount    |-> IF "amount" \in d THEN other_liquidity(e.amount) ELSE e.amount]

SwapFields == { "amount0", "amount1", "sqrtPriceX96", "liquidity", "tick" }

node_swap_log(e, d) ==
    [amount0      |-> IF "amount0" \in d THEN e.amount0 + 1 ELSE e.amount0,
     amount1      |-> IF "amount1" \in d THEN e.amount1 - 1 ELSE e.amount1,
     sqrtPriceX96 |-> IF "sqrtPriceX96" \in d THEN e.sqrtPriceX96 + 1 ELSE e.sqrtPriceX96,
     liquidity    |-> IF "liquidity" \in d THEN e.liquidity + 1 ELSE e.liquidity,
     tick         |-> IF "tick" \in d THEN e.tick + 1 ELSE e.tick]

\* the sets of fields in which an emitted log differs from the recorded event:
\* none, any single one, or all of them
Differences(fields) == { {} } \cup { {f} : f \in fields } \cup { fields }

NoLog == [type |-> "None"]
NoEvent == [type |-> "None"]

----------------------------------------------------------------------------
(* chain_interactions/collect.rs: the position ledger and the PnL evaluator *)

\* results of the fallible operations: Ok, Err(message), or a panic
Ok(fields) == [ok |-> TRUE, panic |-> FALSE, err |-> ""] @@ fields
Err(msg, fields) == [ok |-> FALSE, panic |-> FALSE, err |-> msg] @@ fields
Panic(msg, fields) == [ok |-> FALSE, panic |-> TRUE, err |-> msg] @@ fields

\* the places where a request to the node may fail inside one handler
FailPoints == { "none", "collect", "slot0", "sim_decrease", "sim_swap" }

\* arithmetic on u128 overflows: a panic in a debug bld, a wrap in a release bld
Builds == { "debug", "release" }
wrap_u128(x) == x % (U128_MAX + 1)

\* a faulty orientation that always takes token0 for the base token
oriented_token0_first(cfg, amount0, amount1) == << amount0, amount1 >>

\* (token, weth) of a pair (amount0, amount1) for the pool's orientation
oriented(cfg, amount0, amount1) ==
    IF cfg.clanker_is_token0 THEN << amount0, amount1 >> ELSE << amount1, amount0 >>

\* sim_swap_token_for_weth: zero input returns zero without a call
sim_swap_token_for_weth(nd, token_amount_out, fail) ==
    IF token_amount_out = 0 THEN [ok |-> TRUE, amount |-> 0]
    ELSE IF fail = "sim_swap" THEN [ok |-> FALSE, amount |-> 0]
    ELSE [ok |-> TRUE, amount |-> node_quote(nd, token_amount_out)]

\* sim_decrease_liquidity: a read-only decreaseLiquidity call
sim_decrease_liquidity(nd, cfg, token_id, liquidity, fail) ==
    IF fail = "sim_decrease" \/ ~node_can_decrease(nd, token_id, liquidity)
    THEN [ok |-> FALSE, token_out |-> 0, weth_out |-> 0]
    ELSE LET a == node_amounts(nd, liquidity)
             o == oriented(cfg, a[1], a[2])
         IN  [ok |-> TRUE, token_out |-> o[1], weth_out |-> o[2]]

\* create_position_info_from_mint_event, given the values read from the node
new_position_info(cfg, mint_envelope, token_id, original_token_id, s0, converted) ==
    LET mint_event == mint_envelope.event
        ins == oriented(cfg, mint_event.amount0, mint_event.amount1)
    IN  [token_id |-> token_id,
         original_token_id |-> original_token_id,
         index |-> 0,
         lower_tick |-> mint_event.tickLower,
         upper_tick |-> mint_event.tickUpper,
         tick_in |-> s0.tick,
         tick_out |-> 0,
         closed |-> FALSE,
         block_in |-> mint_envelope.block,
         token_amount_in |-> ins[1],
         weth_amount_in |-> ins[2],
         sqrt_price_limit_x96_in |-> s0.sqrtPriceX96,
         liquidity_in |-> mint_event.amount,
         block_out |-> 0,
         token_amount_out |-> 0,
         weth_amount_out |-> 0,
         sqrt_price_limit_x96_out |-> 0,
         fees_earned_token |-> 0,
         fees_earned_weth |-> 0,
         position_action |-> "Open",
         approx_ending_weth |-> 0,
         approx_starting_weth |-> converted + ins[2],
         end_token_gain_separate |-> 0,
         end_weth_gain_separate |-> 0,
         end_weth_gain_converted |-> 0]

create_position_info_from_mint_event(nd, cfg, mint_envelope, token_id, original_token_id, fail) ==
    LET mint_event == mint_envelope.event
        ins == oriented(cfg, mint_event.amount0, mint_event.amount1)
        fee_growth_check == IF cfg.clanker_is_token0 THEN nd.fee_growth0
                            ELSE nd.fee_growth1
        sw == IF ins[1] > 0 /\ fee_growth_check > 0
              THEN sim_swap_token_for_weth(nd, ins[1], fail)
              ELSE [ok |-> TRUE, amount |-> 0]
    IN  IF ~sw.ok THEN Err("sim swap failed", [position |-> NoEvent])
        ELSE IF fail = "slot0" THEN Err("slot0 failed", [position |-> NoEvent])
        ELSE Ok([position |-> new_position_info(cfg, mint_envelope, token_id,
                                                original_token_id, slot0(nd),
                                                sw.amount)])

\* the gain a - b in an unsigned type that stops at zero
unsigned_gain(a, b) == IF a < b THEN 0 ELSE a - b

\* a faulty PnL whose gains cannot be negative
with_pnl_unsigned(p, token_out, weth_out, converted) ==
    LET ending == converted + weth_out + p.fees_earned_weth
    IN  [p EXCEPT
           !.token_amount_out = token_out,
           !.weth_amount_out = weth_out,
           !.approx_ending_weth = ending,
           !.end_weth_gain_separate =
                unsigned_gain(weth_out + p.fees_earned_weth, p.weth_amount_in),
           !.end_token_gain_separate =
                unsigned_gain(token_out + p.fees_earned_token, p.token_amount_in),
           !.end_weth_gain_converted = unsigned_gain(ending, p.approx_starting_weth)]

\* the closing PnL of close_out_position_info
with_pnl(p, token_out, weth_out, converted) ==
    LET ending == converted + weth_out + p.fees_earned_weth
    IN  [p EXCEPT
           !.token_amount_out = token_out,
           !.weth_amount_out = weth_out,
           !.approx_ending_weth = ending,
           !.end_weth_gain_separate = weth_out - p.weth_amount_in + p.fees_earned_weth,
           !.end_token_gain_separate = token_out - p.token_amount_in + p.fees_earned_token,
           !.end_weth_gain_converted = ending - p.approx_starting_weth]

\* the last steps of close_out_position_info: the simulated sale and the PnL
close_out_sell(nd, p, token_out, weth_out, fail) ==
    LET sw == sim_swap_token_for_weth(nd, token_out + p.fees_earned_token, fail)
        p1 == [p EXCEPT !.token_amount_out = token_out, !.weth_amount_out = weth_out]
    IN  IF ~sw.ok THEN Err("sim swap failed", [position |-> p1, node |-> nd])
        ELSE Ok([position |-> with_pnl(p, token_out, weth_out, sw.amount), node |-> nd])

\* the amounts owed on close, cases (1), (2) and (3) of close_out_position_info
close_out_amounts(nd, cfg, token_id, p, dl, fail, bld) ==
    IF dl.type # "None"
    THEN LET dl_out == oriented(cfg, dl.amount0, dl.amount1)
         IN  IF p.liquidity_in = dl.liquidity
             THEN close_out_sell(nd, p, dl_out[1], dl_out[2], fail)
             ELSE IF p.liquidity_in < dl.liquidity /\ bld = "debug"
             THEN Panic("attempt to subtract with overflow",
                        [position |-> p, node |-> nd])
             ELSE LET r == sim_decrease_liquidity(nd, cfg, token_id,
                               wrap_u128(p.liquidity_in - dl.liquidity), fail)
                  IN  IF ~r.ok
                      THEN Err("sim decrease liquidity failed",
                               [position |-> p, node |-> nd])
                      ELSE close_out_sell(nd, p, r.token_out + dl_out[1],
                                          r.weth_out + dl_out[2], fail)
    ELSE LET r == sim_decrease_liquidity(nd, cfg, token_id, p.liquidity_in, fail)
         IN  IF ~r.ok
             THEN Err("sim decrease liquidity failed", [position |-> p, node |-> nd])
             ELSE close_out_sell(nd, p, r.token_out, r.weth_out, fail)

\* close_out_position_info: the position is marked closed first, then the fees
\* are collected, slot0 is read and the amounts out and the PnL are computed
close_out_position_info(nd, cfg, token_id, position, block_out, dl, fail, bld) ==
    LET p1 == [position EXCEPT !.closed = TRUE, !.block_out = block_out]
        collect_log == nd.owed[token_id]
        fees == oriented(cfg, collect_log[1], collect_log[2])
        nd1 == node_collect(nd, token_id)
        p2 == [p1 EXCEPT !.fees_earned_token = fees[1], !.fees_earned_weth = fees[2]]
        s0 == slot0(nd1)
        p3 == [p2 EXCEPT !.sqrt_price_limit_x96_out = s0.sqrtPriceX96,
                         !.tick_out = s0.tick]
    IN  IF fail = "collect"
        THEN Err("Failed to collect fees after 4 attempts",
                 [position |-> p1, node |-> nd])
        ELSE IF fail = "slot0"
        THEN Err("slot0 failed", [position |-> p2, node |-> nd1])
        ELSE close_out_amounts(nd1, cfg, token_id, p3, dl, fail, bld)

\* the segment that follows position p
next_position_info(p, action, closed, block_in, token_in, weth_in, liquidity, converted) ==
    [token_id |-> p.token_id,
     original_token_id |-> p.original_token_id,
     index |-> p.index + 1,
     lower_tick |-> p.lower_tick,
     upper_tick |-> p.upper_tick,
     tick_in |-> IF action = "ClosePosition" THEN 0 ELSE p.tick_out,
     tick_out |-> 0,
     closed |-> closed,
     block_in |-> block_in,
     token_amount_in |-> token_in,
     weth_amount_in |-> weth_in,
     sqrt_price_limit_x96_in |-> IF action = "ClosePosition" THEN 0
                                 ELSE p.sqrt_price_limit_x96_out,
     liquidity_in |-> liquidity,
     block_out |-> 0,
     token_amount_out |-> 0,
     weth_amount_out |-> 0,
     sqrt_price_limit_x96_out |-> 0,
     fees_earned_token |-> 0,
     fees_earned_weth |-> 0,
     position_action |-> action,
     approx_ending_weth |-> 0,
     approx_starting_weth |-> converted + weth_in,
     end_token_gain_separate |-> 0,
     end_weth_gain_separate |-> 0,
     end_weth_gain_converted |-> 0]

\* a faulty sum that forgets the increase
increased_liquidity_unchanged(p, il) == p.liquidity_in

\* liquidity_in of the segment opened by an increase
increased_liquidity(p, il) == p.liquidity_in + il.liquidity

\* pool_collect_fees_post_increase_liquidity: close the segment with no decrease
\* event, then bld the next one from the summed amounts
pool_collect_fees_post_increase_liquidity(nd, cfg, token_id, position, block_out, il, fail, bld) ==
    LET c == close_out_position_info(nd, cfg, token_id, position, block_out,
                                     NoEvent, fail, bld)
    IN  IF ~c.ok THEN c @@ [new |-> NoEvent]
        ELSE
        LET p == c.position
            inc == oriented(cfg, il.amount0, il.amount1)
            token_start == p.token_amount_in + inc[1]
            weth_start == p.weth_amount_in + inc[2]
            sw == sim_swap_token_for_weth(c.node, token_start, fail)
            liquidity == increased_liquidity(p, il)
        IN  IF ~sw.ok
            THEN Err("sim swap failed", [position |-> p, node |-> c.node, new |-> NoEvent])
            ELSE IF liquidity > U128_MAX /\ bld = "debug"
            THEN Panic("attempt to add with overflow",
                       [position |-> p, node |-> c.node, new |-> NoEvent])
            ELSE Ok([position |-> p, node |-> c.node,
                     new |-> next_position_info(p, "IncreaseLiquidity", FALSE, block_out,
                                                token_start, weth_start,
                                                wrap_u128(liquidity), sw.amount)])

\* a faulty test that takes every decrease for a full close
is_full_close_always(p, dl) == p.liquidity_in >= 0

\* the decrease closes the whole segment
is_full_close(p, dl) == p.liquidity_in = dl.liquidity

\* pool_collect_fees_post_decrease_liquidity: close the segment with the decrease
\* event, then append the terminal segment (full close) or the residual one
pool_collect_fees_post_decrease_liquidity(nd, cfg, token_id, position, block_out, dl, fail, bld) ==
    LET c == close_out_position_info(nd, cfg, token_id, position, block_out,
                                     dl, fail, bld)
    IN  IF ~c.ok THEN c @@ [new |-> NoEvent]
        ELSE
        LET p == c.position
        IN  IF is_full_close(p, dl)
            THEN Ok([position |-> p, node |-> c.node,
                     new |-> next_position_info(p, "ClosePosition", TRUE, block_out,
                                                0, 0, 0, 0)])
            ELSE
            LET dl_out == oriented(cfg, dl.amount0, dl.amount1)
                token_start == p.token_amount_in - dl_out[1]
                weth_start == p.weth_amount_in - dl_out[2]
                sw == sim_swap_token_for_weth(c.node, token_start, fail)
            IN  IF token_start < 0
                THEN Panic("token decrease larger than starting token amount",
                           [position |-> p, node |-> c.node, new |-> NoEvent])
                ELSE IF weth_start < 0
                THEN Panic("weth decrease larger than starting weth amount",
                           [position |-> p, node |-> c.node, new |-> NoEvent])
                ELSE IF ~sw.ok
                THEN Err("sim swap failed",
                         [position |-> p, node |-> c.node, new |-> NoEvent])
                ELSE IF p.liquidity_in < dl.liquidity /\ bld = "debug"
                THEN Panic("attempt to subtract with overflow",
                           [position |-> p, node |-> c.node, new |-> NoEvent])
                ELSE Ok([position |-> p, node |-> c.node,
                         new |-> next_position_info(p, "DecreaseLiquidity", FALSE,
                                     block_out, token_start, weth_start,
                                     wrap_u128(p.liquidity_in - dl.liquidity),
                                     sw.amount)])

\* a faulty close-out that leaves the segment as it is
pool_close_out_position_skipped(nd, cfg, token_id, position, block_out, fail, bld) ==
    Ok([position |-> position, node |-> nd])

\* pool_close_out_position: close with no decrease event
pool_close_out_position(nd, cfg, token_id, position, block_out, fail, bld) ==
    close_out_position_info(nd, cfg, token_id, position, block_out, NoEvent, fail, bld)

----------------------------------------------------------------------------
(* chain_interactions/mint.rs, burn.rs, swap.rs: the replay primitives *)

\* what the node does with a submitted transaction
TxOutcomes == { "ok", "failed" }

\* a faulty check that forgets the liquidity amount
check_mint_outcomes_without_amount(mint_event, mint_log) ==
    ~ ( \/ mint_log.amount0 # mint_event.amount0
        \/ mint_log.amount1 # mint_event.amount1
        \/ mint_log.tickLower # mint_event.tickLower
        \/ mint_log.tickUpper # mint_event.tickUpper )

\* check_mint_outcomes: TRUE when the log agrees with the recorded event
check_mint_outcomes(mint_event, mint_log) ==
    ~ ( \/ mint_log.amount0 # mint_event.amount0
        \/ mint_log.amount1 # mint_event.amount1
        \/ mint_log.tickLower # mint_event.tickLower
        \/ mint_log.tickUpper # mint_event.tickUpper
        \/ mint_log.amount # mint_event.amount )

\* check_burn_outcomes
check_burn_outcomes(burn_event, burn_log) ==
    ~ ( \/ burn_log.amount0 # burn_event.amount0
        \/ burn_log.amount1 # burn_event.amount1
        \/ burn_log.amount # burn_event.amount
        \/ burn_log.tickLower # burn_event.tickLower
        \/ burn_log.tickUpper # burn_event.tickUpper )

\* check_swap_outcomes
check_swap_outcomes(swap_event, swap_log) ==
    ~ ( \/ swap_log.amount0 # swap_event.amount0
        \/ swap_log.amount1 # swap_event.amount1
        \/ swap_log.sqrtPriceX96 # swap_event.sqrtPriceX96
        \/ swap_log.liquidity # swap_event.liquidity
        \/ swap_log.tick # swap_event.tick )

\* a faulty mint that always reports the first token id of the node
pool_mint_first_id(nd, mint_event, il, tx, log) ==
    IF tx # "ok" \/ log.amount > U128_MAX
    THEN Err("Failed to mint after 4 attempts",
             [node |-> nd, token_id |-> 0, log |-> NoLog])
    ELSE IF ~check_mint_outcomes(mint_event, log)
    THEN Err("Mismatch in mint outcomes",
             [node |-> node_mint(nd, log), token_id |-> 0, log |-> log])
    ELSE Ok([node |-> node_mint(nd, log), token_id |-> 1, log |-> log])

\* pool_mint: the token id comes from a simulated mint, then the mint is sent
\* and its log verified
pool_mint(nd, mint_event, il, tx, log) ==
    LET token_id == nd.next_id
    IN  IF tx # "ok" \/ log.amount > U128_MAX
        THEN Err("Failed to mint after 4 attempts",
                 [node |-> nd, token_id |-> 0, log |-> NoLog])
        ELSE IF ~check_mint_outcomes(mint_event, log)
        THEN Err("Mismatch in mint outcomes",
                 [node |-> node_mint(nd, log), token_id |-> 0, log |-> log])
        ELSE Ok([node |-> node_mint(nd, log), token_id |-> token_id, log |-> log])

\* pool_increase_liquidity
pool_increase_liquidity(nd, mint_event, il, token_id, tx, log) ==
    IF tx # "ok" \/ nd.liq[token_id] + log.amount > U128_MAX
    THEN Err("Failed to increase liquidity after 4 attempts",
             [node |-> nd, log |-> NoLog])
    ELSE IF ~check_mint_outcomes(mint_event, log)
    THEN Err("Mismatch in mint outcomes",
             [node |-> node_increase(nd, token_id, log), log |-> log])
    ELSE Ok([node |-> node_increase(nd, token_id, log), log |-> log])

\* a faulty burn that does not verify the log of its receipt
pool_burn_unverified(nd, token_id, burn_event, dl, tx, log) ==
    IF tx # "ok" \/ ~node_can_decrease(nd, token_id, dl.liquidity)
    THEN Err("Failed to burn", [node |-> nd, log |-> NoLog])
    ELSE Ok([node |-> node_decrease(nd, token_id, dl.liquidity, log), log |-> log])

\* pool_burn: decreaseLiquidity at the recorded liquidity, sent once
pool_burn(nd, token_id, burn_event, dl, tx, log) ==
    IF tx # "ok" \/ ~node_can_decrease(nd, token_id, dl.liquidity)
    THEN Err("Failed to burn", [node |-> nd, log |-> NoLog])
    ELSE IF ~check_burn_outcomes(burn_event, log)
    THEN Err("Mismatch in burn outcomes",
             [node |-> node_decrease(nd, token_id, dl.liquidity, log), log |-> log])
    ELSE Ok([node |-> node_decrease(nd, token_id, dl.liquidity, log), log |-> log])

\* pool_swap
pool_swap(nd, swap_event, tx, log) ==
    IF tx # "ok"
    THEN Err("Failed to swap after 4 attempts", [node |-> nd, log |-> NoLog])
    ELSE IF ~check_swap_outcomes(swap_event, log)
    THEN Err("Mismatch in swap outcomes", [node |-> node_swap(nd, log), log |-> log])
    ELSE Ok([node |-> node_swap(nd, log), log |-> log])

----------------------------------------------------------------------------
(* fee_analyzer/mod.rs: PoolAnalyzer *)

\* a faulty insert that forgets the other keys
map_insert_alone(m, k, v) == [x \in {k} |-> v]

\* HashMap::insert
map_insert(m, k, v) == [x \in (DOMAIN m) \cup {k} |-> IF x = k THEN v ELSE m[x]]

\* a faulty write that changes a copy and leaves the vector as it was
set_last_on_copy(segs, p) == segs

\* Vec::last_mut followed by a write, and Vec::push
set_last(segs, p) == [segs EXCEPT ![Len(segs)] = p]

\* what the node answers inside one handler: the token transfer, the replayed
\* transaction, the fields in which its log differs from the recorded event, the
\* request that fails afterwards
Choice(transfer, tx, d, fail) ==
    [transfer |-> transfer, tx |-> tx, d |-> d, fail |-> fail]

Choices(fields) ==
    { Choice("failed", "ok", {}, "none"), Choice("ok", "failed", {}, "none") }
    \cup { Choice("ok", "ok", d, "none") : d \in Differences(fields) \ { {} } }
    \cup { Choice("ok", "ok", {}, f) : f \in FailPoints }

\* no primitive is being followed
NoCall == [prim |-> "none", pc |-> "none", attempts |-> 0, submitted |-> 0,
           receipt |-> "none", d |-> {}, result |-> "none"]

NoTx == [op |-> "none", event |-> NoEvent, log |-> NoLog, verified |-> FALSE]

Init ==
    /\ \E s \in Streams, mode \in KeyModes : input_files = files_of(s, mode)
    /\ events = << >>
    /\ pos = 1
    /\ status = "init"
    /\ err = ""
    /\ pool_config = [clanker_is_token0 |-> FALSE]
    /\ token_id_map = << >>
    /\ position_info = << >>
    /\ node = NodeInit
    /\ last_tx = NoTx
    /\ last_op = << >>
    /\ processed = << >>
    /\ write_called = FALSE
    /\ output = << >>
    /\ build \in Builds
    /\ call = NoCall

\* the run ends with Err(msg)
Abort(msg) == status' = "error" /\ err' = msg

\* the run ends with a panic
Crash(msg) == status' = "panic" /\ err' = msg

\* the run ends as the result r of a failed operation says
Fail(r) == IF r.panic THEN Crash(r.err) ELSE Abort(r.err)

\* PoolAnalyzer::initialize: connect, load and sort the events, find the
\* PoolCreated and Initialize events, set up the accounts and deploy the pool
InitializeAnalyzer ==
    /\ status = "init"
    /\ UNCHANGED << call, build, input_files, pos, token_id_map, position_info, node, last_tx,
                    last_op, processed, write_called, output >>
    /\ \E setup \in { "ok", "anvil_failed", "setup_failed" } :
        IF setup = "anvil_failed"
        THEN Abort("Failed to connect to anvil") /\ UNCHANGED << events, pool_config >>
        ELSE
        LET r == pool_events(input_files)
            create_event == find_first_event(r.events, "PoolCreated")
            init_event == find_first_event(r.events, "Initialize")
        IN  IF ~r.ok
            THEN /\ Abort("Failed to get pool events from CSV")
                 /\ UNCHANGED << events, pool_config >>
            ELSE IF create_event = 0 \/ init_event = 0
            THEN Abort("Event not found") /\ UNCHANGED << events, pool_config >>
            ELSE IF setup = "setup_failed"
            THEN Abort("Failed to set up the simulation")
                 /\ UNCHANGED << events, pool_config >>
            ELSE /\ events' = r.events
                 /\ pool_config' = [clanker_is_token0 |->
                                      ~r.events[create_event].event.token0_is_weth]
                 /\ status' = "ready"
                 /\ err' = ""

\* run_simulation, before the loop: the first two events are skipped
StartSimulation ==
    /\ status = "ready"
    /\ pos' = pos + 2
    /\ status' = "loop"
    /\ UNCHANGED << call, build, input_files, events, err, pool_config, token_id_map, position_info,
                    node, last_tx, last_op, processed, write_called, output >>

\* the loop has an event to take
HasEvent == status = "loop" /\ pos <= Len(events)

\* a peek that looks one event too far
peek_one_too_far == IF pos + 2 <= Len(events) THEN events[pos + 2].event ELSE NoEvent

\* the event event_iter.peek() shows, NoEvent at the end of the stream
peek == IF pos + 1 <= Len(events) THEN events[pos + 1].event ELSE NoEvent

\* Event::PoolCreated arm
HandlePoolCreated ==
    /\ HasEvent
    /\ event_type(events[pos].event) = "PoolCreated"
    /\ UNCHANGED << call, build, input_files, events, pool_config, token_id_map, position_info, node,
                    last_tx, last_op, write_called, output >>
    /\ IF peek.type = "None"
       THEN /\ Abort("No events after pool created")
            /\ pos' = pos + 1
            /\ processed' = Append(processed, pos)
       ELSE IF event_type(peek) # "Initialize"
       THEN /\ Abort("Pool initialize event was not event after pool created")
            /\ pos' = pos + 1
            /\ processed' = Append(processed, pos)
       ELSE /\ pos' = pos + 2
            /\ processed' = processed \o << pos, pos + 1 >>
            /\ \E tx \in TxOutcomes :
                 IF tx = "ok" THEN UNCHANGED << status, err >>
                 ELSE Abort("Failed to create pool")

\* an Initialize arm that logs the error and looks at the same event again
HandleInitialize_looping ==
    /\ HasEvent
    /\ event_type(events[pos].event) = "Initialize"
    /\ err' = "Pool initialize event found in wrong position"
    /\ UNCHANGED << call, build, input_files, events, pos, status, pool_config, token_id_map,
                    position_info, node, last_tx, last_op, processed, write_called, output >>

\* Event::Initialize arm
HandleInitialize ==
    /\ HasEvent
    /\ event_type(events[pos].event) = "Initialize"
    /\ Abort("Pool initialize events should be handled by pool created event")
    /\ pos' = pos + 1
    /\ processed' = Append(processed, pos)
    /\ UNCHANGED << call, build, input_files, events, pool_config, token_id_map, position_info, node,
                    last_tx, last_op, write_called, output >>

\* the fresh-mint branch of the Mint arm
FreshMint(e, il, ch) ==
    LET r == pool_mint(node, e.event, il, ch.tx, node_mint_log(e.event, ch.d))
    IN  /\ node' = r.node
        /\ last_tx' = [op |-> "mint", event |-> e.event, log |-> r.log, verified |-> r.ok]
        /\ IF ~r.ok
           THEN Fail(r) /\ UNCHANGED << token_id_map, position_info, last_op >>
           ELSE
           LET c == create_position_info_from_mint_event(r.node, pool_config, e,
                        r.token_id, il.tokenId, ch.fail)
           IN  /\ token_id_map' = map_insert(token_id_map, il.tokenId, r.token_id)
               /\ IF ~c.ok
                  THEN Fail(c) /\ UNCHANGED << position_info, last_op >>
                  ELSE /\ position_info' =
                            map_insert(position_info, r.token_id, << c.position >>)
                       /\ last_op' = map_insert(last_op, r.token_id,
                              [kind |-> "Open", liquidity |-> e.event.amount,
                               before |-> 0, amount0 |-> e.event.amount0,
                               amount1 |-> e.event.amount1])
                       /\ UNCHANGED << status, err >>

\* the increase branch of the Mint arm: the transaction first, then the close-out
\* of the current segment and the push of the next one
IncreaseOnExisting(e, il, ch) ==
    LET token_id == token_id_map[il.tokenId]
        r == pool_increase_liquidity(node, e.event, il, token_id, ch.tx,
                                     node_mint_log(e.event, ch.d))
        segs == position_info[token_id]
    IN  /\ last_tx' = [op |-> "increase", event |-> e.event, log |-> r.log,
                       verified |-> r.ok]
        /\ UNCHANGED token_id_map
        /\ IF ~r.ok
           THEN Fail(r) /\ node' = r.node /\ UNCHANGED << position_info, last_op >>
           ELSE
           LET c == pool_collect_fees_post_increase_liquidity(r.node, pool_config,
                        token_id, segs[Len(segs)], e.block, il, ch.fail, build)
           IN  /\ node' = c.node
               /\ IF ~c.ok
                  THEN /\ Fail(c)
                       /\ position_info' =
                            [position_info EXCEPT ![token_id] = set_last(segs, c.position)]
                       /\ UNCHANGED last_op
                  ELSE /\ position_info' =
                            [position_info EXCEPT
                               ![token_id] = Append(set_last(segs, c.position), c.new)]
                       /\ last_op' = [last_op EXCEPT ![token_id] =
                              [kind |-> "Increase", liquidity |-> il.liquidity,
                               before |-> segs[Len(segs)].liquidity_in,
                               amount0 |-> il.amount0, amount1 |-> il.amount1]]
                       /\ UNCHANGED << status, err >>

\* Event::Mint arm
HandleMint ==
    /\ HasEvent
    /\ event_type(events[pos].event) = "Mint"
    /\ UNCHANGED << call, build, input_files, events, pool_config, write_called, output >>
    /\ \E ch \in Choices(MintFields) :
        LET e == events[pos]
            clanker_amount == oriented(pool_config, e.event.amount0, e.event.amount1)[1]
        IN  IF clanker_amount # 0 /\ ch.transfer # "ok"
            THEN /\ Abort("Failed to transfer clanker tokens")
                 /\ pos' = pos + 1
                 /\ processed' = Append(processed, pos)
                 /\ UNCHANGED << token_id_map, position_info, node, last_tx, last_op >>
            ELSE IF peek.type = "None"
            THEN /\ Abort("No events after mint")
                 /\ pos' = pos + 1
                 /\ processed' = Append(processed, pos)
                 /\ UNCHANGED << token_id_map, position_info, node, last_tx, last_op >>
            ELSE IF event_type(peek) # "IncreaseLiquidity"
            THEN /\ Abort("Increase liquidity event was not event after mint")
                 /\ pos' = pos + 1
                 /\ processed' = Append(processed, pos)
                 /\ UNCHANGED << token_id_map, position_info, node, last_tx, last_op >>
            ELSE /\ pos' = pos + 2
                 /\ processed' = processed \o << pos, pos + 1 >>
                 /\ IF peek.tokenId \in DOMAIN token_id_map
                    THEN IncreaseOnExisting(e, peek, ch)
                    ELSE FreshMint(e, peek, ch)

\* Event::Swap arm
HandleSwap ==
    /\ HasEvent
    /\ event_type(events[pos].event) = "Swap"
    /\ pos' = pos + 1
    /\ processed' = Append(processed, pos)
    /\ UNCHANGED << call, build, input_files, events, pool_config, token_id_map, position_info,
                    last_op, write_called, output >>
    /\ \E tx \in TxOutcomes, d \in Differences(SwapFields) :
        LET e == events[pos].event
            r == pool_swap(node, e, tx, node_swap_log(e, d))
        IN  /\ node' = r.node
            /\ last_tx' = [op |-> "swap", event |-> e, log |-> r.log, verified |-> r.ok]
            /\ IF r.ok THEN UNCHANGED << status, err >> ELSE Fail(r)

\* a lookup that falls back on the first token id of the node
token_id_map_get_or_first(recorded) ==
    IF recorded \in DOMAIN token_id_map THEN token_id_map[recorded] ELSE 1

\* self.token_id_map.get(..): the simulated token id, 0 for None
token_id_map_get(recorded) ==
    IF recorded \in DOMAIN token_id_map THEN token_id_map[recorded] ELSE 0

\* the DecreaseLiquidity branch of the Burn arm
BurnWithDecrease(e, dl, ch) ==
    IF token_id_map_get(dl.tokenId) = 0
    THEN /\ Abort("Token id not found for Burn")
         /\ UNCHANGED << position_info, node, last_tx, last_op >>
    ELSE
    LET token_id == token_id_map_get(dl.tokenId)
        r == pool_burn(node, token_id, e.event, dl, ch.tx, node_mint_log(e.event, ch.d))
        segs == position_info[token_id]
    IN  /\ last_tx' = [op |-> "burn", event |-> e.event, log |-> r.log, verified |-> r.ok]
        /\ IF ~r.ok
           THEN Fail(r) /\ node' = r.node /\ UNCHANGED << position_info, last_op >>
           ELSE
           LET c == pool_collect_fees_post_decrease_liquidity(r.node, pool_config,
                        token_id, segs[Len(segs)], e.block, dl, ch.fail, build)
           IN  /\ node' = c.node
               /\ IF ~c.ok
                  THEN /\ Fail(c)
                       /\ position_info' =
                            [position_info EXCEPT ![token_id] = set_last(segs, c.position)]
                       /\ UNCHANGED last_op
                  ELSE /\ position_info' =
                            [position_info EXCEPT
                               ![token_id] = Append(set_last(segs, c.position), c.new)]
                       /\ last_op' = [last_op EXCEPT ![token_id] =
                              [kind |-> "Decrease", liquidity |-> dl.liquidity,
                               before |-> segs[Len(segs)].liquidity_in,
                               amount0 |-> dl.amount0, amount1 |-> dl.amount1]]
                       /\ UNCHANGED << status, err >>

\* Event::Burn arm
HandleBurn ==
    /\ HasEvent
    /\ event_type(events[pos].event) = "Burn"
    /\ UNCHANGED << call, build, input_files, events, pool_config, token_id_map, write_called, output >>
    /\ IF peek.type = "None"
       THEN /\ Abort("No events after burn")
            /\ pos' = pos + 1
            /\ processed' = Append(processed, pos)
            /\ UNCHANGED << position_info, node, last_tx, last_op >>
       ELSE IF event_type(peek) \notin { "CollectPool", "DecreaseLiquidity" }
       THEN /\ Abort("Next event is not a collectPool or decreaseLiquidity")
            /\ pos' = pos + 1
            /\ processed' = Append(processed, pos)
            /\ UNCHANGED << position_info, node, last_tx, last_op >>
       ELSE /\ pos' = pos + 2
            /\ processed' = processed \o << pos, pos + 1 >>
            /\ IF event_type(peek) = "DecreaseLiquidity"
               THEN \E ch \in Choices(MintFields) \ { Choice("failed", "ok", {}, "none") } :
                        BurnWithDecrease(events[pos], peek, ch)
               ELSE UNCHANGED << status, err, position_info, node, last_tx, last_op >>

\* Event::IncreaseLiquidity arm
HandleIncreaseLiquidity ==
    /\ HasEvent
    /\ event_type(events[pos].event) = "IncreaseLiquidity"
    /\ Abort("Increase liquidity event not processed in mint handling")
    /\ pos' = pos + 1
    /\ processed' = Append(processed, pos)
    /\ UNCHANGED << call, build, input_files, events, pool_config, token_id_map, position_info, node,
                    last_tx, last_op, write_called, output >>

\* Event::DecreaseLiquidity arm
HandleDecreaseLiquidity ==
    /\ HasEvent
    /\ event_type(events[pos].event) = "DecreaseLiquidity"
    /\ Abort("Decrease liquidity event not processed in burn handling")
    /\ pos' = pos + 1
    /\ processed' = Append(processed, pos)
    /\ UNCHANGED << call, build, input_files, events, pool_config, token_id_map, position_info, node,
                    last_tx, last_op, write_called, output >>

\* a faulty catch-all arm that replays the collect on the node
HandleCollect_replayed ==
    /\ HasEvent
    /\ event_type(events[pos].event) \in { "CollectPool", "CollectNpm" }
    /\ pos' = pos + 1
    /\ processed' = Append(processed, pos)
    /\ last_tx' = [NoTx EXCEPT !.op = "collect", !.event = events[pos].event]
    /\ UNCHANGED << call, build, input_files, events, status, err, pool_config, token_id_map,
                    position_info, node, last_op, write_called, output >>

\* the catch-all arm: CollectPool and CollectNpm events are not replayed
HandleCollect ==
    /\ HasEvent
    /\ event_type(events[pos].event) \in { "CollectPool", "CollectNpm" }
    /\ pos' = pos + 1
    /\ processed' = Append(processed, pos)
    /\ UNCHANGED << call, build, input_files, events, status, err, pool_config, token_id_map,
                    position_info, node, last_tx, last_op, write_called, output >>

\* a faulty loop that drops the error of a failed close-out and goes on
RECURSIVE close_segments_ignoring_errors(_, _, _, _, _, _, _, _)
close_segments_ignoring_errors(nd, cfg, token_id, segs, i, closed_found, fail, bld) ==
    IF i > Len(segs) THEN Ok([node |-> nd, segs |-> segs])
    ELSE IF segs[i].closed
    THEN close_segments_ignoring_errors(nd, cfg, token_id, segs, i + 1, closed_found,
                                        fail, bld)
    ELSE IF closed_found
    THEN Err("Multiple positions found for token id", [node |-> nd, segs |-> segs])
    ELSE LET c == pool_close_out_position(nd, cfg, token_id, segs[i], 0, fail, bld)
             segs1 == [segs EXCEPT ![i] = c.position]
         IN  close_segments_ignoring_errors(c.node, cfg, token_id, segs1, i + 1, TRUE,
                                            fail, bld)

\* the finalization loop over the segments of one token id
RECURSIVE close_segments(_, _, _, _, _, _, _, _)
close_segments(nd, cfg, token_id, segs, i, closed_found, fail, bld) ==
    IF i > Len(segs) THEN Ok([node |-> nd, segs |-> segs])
    ELSE IF segs[i].closed
    THEN close_segments(nd, cfg, token_id, segs, i + 1, closed_found, fail, bld)
    ELSE IF closed_found
    THEN Err("Multiple positions found for token id", [node |-> nd, segs |-> segs])
    ELSE LET c == pool_close_out_position(nd, cfg, token_id, segs[i], 0, fail, bld)
             segs1 == [segs EXCEPT ![i] = c.position]
         IN  IF ~c.ok
             THEN [ok |-> FALSE, panic |-> c.panic, err |-> c.err,
                   node |-> c.node, segs |-> segs1]
             ELSE close_segments(c.node, cfg, token_id, segs1, i + 1, TRUE, fail, bld)

\* the finalization loop over the token ids, in the order the HashMap yields them;
\* the request named by fail fails while the token id failing is being closed
RECURSIVE close_all(_, _, _, _, _, _, _, _)
close_all(nd, cfg, ledger, order, k, failing, fail, bld) ==
    IF k > Len(order) THEN Ok([node |-> nd, ledger |-> ledger])
    ELSE LET token_id == order[k]
             r == close_segments(nd, cfg, token_id, ledger[token_id], 1, FALSE,
                                 IF token_id = failing THEN fail ELSE "none", bld)
             ledger1 == [ledger EXCEPT ![token_id] = r.segs]
         IN  IF ~r.ok
             THEN [ok |-> FALSE, panic |-> r.panic, err |-> r.err,
                   node |-> r.node, ledger |-> ledger1]
             ELSE close_all(r.node, cfg, ledger1, order, k + 1, failing, fail, bld)

\* the orders in which a HashMap may yield its keys
Orders(m) ==
    { o \in [1..Cardinality(DOMAIN m) -> DOMAIN m] :
        \A a, b \in 1..Cardinality(DOMAIN m) : a # b => o[a] # o[b] }

\* a faulty selection that keeps the empty segments
RECURSIVE rows_unfiltered(_, _, _)
rows_unfiltered(ledger, order, k) ==
    IF k > Len(order) THEN << >>
    ELSE ledger[order[k]] \o rows_unfiltered(ledger, order, k + 1)

\* values().flatten().filter(liquidity_in > 0).collect()
RECURSIVE rows(_, _, _)
rows(ledger, order, k) ==
    IF k > Len(order) THEN << >>
    ELSE SelectSeq(ledger[order[k]], LAMBDA p : p.liquidity_in > 0)
            \o rows(ledger, order, k + 1)

\* the end of run_simulation: every open segment is closed out, then the rows
\* are written
Finalize ==
    /\ status = "loop"
    /\ pos > Len(events)
    /\ UNCHANGED << call, build, input_files, events, pos, pool_config, token_id_map, last_tx,
                    last_op, processed >>
    /\ \E order \in Orders(position_info),
          failing \in (DOMAIN position_info) \cup {0},
          fail \in FailPoints,
          write \in TxOutcomes :
        LET r == close_all(node, pool_config, position_info, order, 1, failing, fail,
                           build)
        IN  /\ node' = r.node
            /\ position_info' = r.ledger
            /\ IF ~r.ok
               THEN Fail(r) /\ UNCHANGED << write_called, output >>
               ELSE /\ write_called' = TRUE
                    /\ IF write = "ok"
                       THEN /\ output' = rows(r.ledger, order, 1)
                            /\ status' = "done"
                            /\ err' = ""
                       ELSE /\ Abort("Failed to write positions to csv")
                            /\ UNCHANGED output

Next ==
    \/ InitializeAnalyzer
    \/ StartSimulation
    \/ HandlePoolCreated
    \/ HandleInitialize
    \/ HandleMint
    \/ HandleSwap
    \/ HandleBurn
    \/ HandleIncreaseLiquidity
    \/ HandleDecreaseLiquidity
    \/ HandleCollect
    \/ Finalize

Spec == Init /\ [][Next]_vars

----------------------------------------------------------------------------
(* Properties *)

\* number of places of s that hold x
Count(s, x) == Cardinality({ i \in 1..Len(s) : s[i] = x })

\* every segment of the ledger is closed
AllClosed ==
    \A t \in DOMAIN position_info :
        \A i \in 1..Len(position_info[t]) : position_info[t][i].closed

\* the write of the output failed
WriteFailed == status = "error" /\ err = "Failed to write positions to csv"

\* C1: the events handed to the driver are a permutation of the loaded files'
\* events, non-decreasing in (block, log_index) with the block compared first,
\* and the loop takes them one after the other in that order.
C1_SortedAndInOrder ==
    /\ events # << >> =>
        /\ Len(events) = Len(concat(input_files, 1))
        /\ \A i \in 1..Len(events) :
              Count(events, events[i]) = Count(concat(input_files, 1), events[i])
        /\ \A i, j \in 1..Len(events) :
              i < j => \/ events[i].block < events[j].block
                       \/ /\ events[i].block = events[j].block
                          /\ events[i].log_index <= events[j].log_index
    /\ \A k \in 1..Len(processed) : processed[k] = k + 2
    /\ status \in { "loop", "done" } => pos = Len(processed) + 3

\* C1 witness: a whole stream has been replayed whose files, concatenated, were
\* not in order
C1_Witness ==
    /\ status = "done"
    /\ Len(processed) >= 4
    /\ events # concat(input_files, 1)
    /\ \E i \in 1..(Len(events) - 1) : events[i].block = events[i + 1].block

\* C2: after every step, each token id's segments carry the indices 0, 1, ..., n
\* in order, at most one of them is not closed, and a step that lengthens a list
\* adds one segment behind a segment that is closed.
C2_SegmentLists ==
    [][ \A t \in DOMAIN position_info' :
          LET segs == position_info'[t]
          IN  /\ \A i \in 1..Len(segs) : segs[i].index = i - 1
              /\ Cardinality({ i \in 1..Len(segs) : ~segs[i].closed }) <= 1
              /\ t \notin DOMAIN position_info => Len(segs) = 1
              /\ t \in DOMAIN position_info =>
                    /\ Len(segs) >= Len(position_info[t])
                    /\ Len(segs) > Len(position_info[t]) =>
                          /\ Len(segs) = Len(position_info[t]) + 1
                          /\ segs[Len(position_info[t])].closed ]_vars

\* C2 witness: a token id has been increased and then decreased, so that two
\* segments have been pushed behind closed ones
C2_Witness ==
    /\ status = "loop"
    /\ \E t \in DOMAIN position_info :
          /\ Len(position_info[t]) >= 3
          /\ position_info[t][2].position_action = "IncreaseLiquidity"
          /\ position_info[t][3].position_action = "DecreaseLiquidity"

\* C3: every segment but the last is closed; between two events of the replay
\* the last segment is closed exactly when the last action on the token id was
\* a decrease of the segment's whole liquidity; once the finalization has run,
\* every segment is closed.
C3_ClosedFlags ==
    /\ \A t \in DOMAIN position_info :
          \A i \in 1..(Len(position_info[t]) - 1) : position_info[t][i].closed
    /\ status = "loop" =>
          \A t \in DOMAIN position_info :
              position_info[t][Len(position_info[t])].closed
                <=> /\ last_op[t].kind = "Decrease"
                    /\ last_op[t].liquidity = last_op[t].before
    /\ (status = "done" \/ write_called) => AllClosed

\* C3 witness: the run has ended with one token id closed by a full decrease and
\* another one closed by the finalization
C3_Witness ==
    /\ status = "done"
    /\ \E t, u \in DOMAIN position_info :
          /\ last_op[t].kind = "Decrease" /\ last_op[t].liquidity = last_op[t].before
          /\ last_op[u].kind # "Decrease"

\* C4: the segment opened by an increase of liquidity L holds the liquidity of
\* the segment before it plus L, the one opened by a decrease holds it minus L,
\* and no such sum or difference leaves 0..u128::MAX.
C4_LiquidityContinuity ==
    /\ status = "panic" =>
          err \notin { "attempt to add with overflow",
                       "attempt to subtract with overflow" }
    /\ status = "loop" =>
          \A t \in DOMAIN position_info :
              LET segs == position_info[t]
                  n == Len(segs)
              IN  /\ last_op[t].kind = "Increase" =>
                        /\ segs[n].liquidity_in = segs[n - 1].liquidity_in + last_op[t].liquidity
                        /\ segs[n].liquidity_in <= U128_MAX
                  /\ last_op[t].kind = "Decrease" =>
                        /\ segs[n].liquidity_in = segs[n - 1].liquidity_in - last_op[t].liquidity
                        /\ segs[n].liquidity_in >= 0

\* C4, where it fails: an increase has been recorded whose sum with the
\* segment's liquidity is above u128::MAX
C4_OverflowReached ==
    \/ status = "panic" /\ err = "attempt to add with overflow"
    \/ /\ status = "loop"
       /\ \E t \in DOMAIN position_info :
             /\ last_op[t].kind = "Increase"
             /\ last_op[t].before + last_op[t].liquidity > U128_MAX
             /\ position_info[t][Len(position_info[t])].liquidity_in
                  = wrap_u128(last_op[t].before + last_op[t].liquidity)

\* C5: a segment closed by a decrease of its whole liquidity has for amounts out
\* the event's (amount0, amount1) when the base token is token0 and
\* (amount1, amount0) otherwise.
C5_FullCloseAmounts ==
    status = "loop" =>
        \A t \in DOMAIN position_info :
            (last_op[t].kind = "Decrease" /\ last_op[t].liquidity = last_op[t].before) =>
                LET closed_segment == position_info[t][Len(position_info[t]) - 1]
                IN  /\ closed_segment.liquidity_in = last_op[t].liquidity
                    /\ closed_segment.closed
                    /\ closed_segment.token_amount_out =
                          IF pool_config.clanker_is_token0
                          THEN last_op[t].amount0 ELSE last_op[t].amount1
                    /\ closed_segment.weth_amount_out =
                          IF pool_config.clanker_is_token0
                          THEN last_op[t].amount1 ELSE last_op[t].amount0

\* C5 witness: a full close in a pool whose base token is token1
C5_Witness ==
    /\ status = "loop"
    /\ ~pool_config.clanker_is_token0
    /\ \E t \in DOMAIN position_info :
          /\ last_op[t].kind = "Decrease"
          /\ last_op[t].liquidity = last_op[t].before
          /\ last_op[t].amount0 # last_op[t].amount1

\* C6: every row handed to the writer has liquidity_in > 0, and every segment
\* of the ledger with liquidity_in > 0 is handed to it exactly once.
C6_RowsWritten ==
    status = "done" =>
        /\ \A i \in 1..Len(output) : output[i].liquidity_in > 0
        /\ \A i \in 1..Len(output) :
              /\ output[i].token_id \in DOMAIN position_info
              /\ output[i].index + 1 \in 1..Len(position_info[output[i].token_id])
              /\ position_info[output[i].token_id][output[i].index + 1] = output[i]
        /\ \A t \in DOMAIN position_info :
              \A i \in 1..Len(position_info[t]) :
                  Count(output, position_info[t][i]) =
                      IF position_info[t][i].liquidity_in > 0 THEN 1 ELSE 0

\* C6 witness: rows have been written from a ledger that holds the terminal
\* segment of a full close
C6_Witness ==
    /\ status = "done"
    /\ Len(output) >= 2
    /\ \E t \in DOMAIN position_info :
          \E i \in 1..Len(position_info[t]) :
              /\ position_info[t][i].position_action = "ClosePosition"
              /\ position_info[t][i].liquidity_in = 0

\* C7: an entry of token_id_map, once made, is never removed and never mapped
\* to another live token id.
C7_TokenIdMapStable ==
    [][ \A r \in DOMAIN token_id_map :
          /\ r \in DOMAIN token_id_map'
          /\ token_id_map'[r] = token_id_map[r] ]_vars

\* C7 witness: two recorded token ids are mapped, and the first has gone through
\* an increase since
C7_Witness ==
    /\ Cardinality(DOMAIN token_id_map) = 2
    /\ \E t \in DOMAIN last_op : last_op[t].kind = "Increase"

\* C8: a primitive that returned success saw a log equal to the recorded event
\* on every verified field, and a log that differs in any of them ends the run
\* with an error.
C8_LogVerified ==
    last_tx.log # NoLog =>
        LET fields ==
              IF last_tx.op = "swap"
              THEN { "amount0", "amount1", "sqrtPriceX96", "liquidity", "tick" }
              ELSE { "amount0", "amount1", "tickLower", "tickUpper", "amount" }
            agrees == \A f \in fields : last_tx.log[f] = last_tx.event[f]
        IN  /\ last_tx.op \in { "mint", "increase", "burn", "swap" }
            /\ last_tx.verified => agrees
            /\ ~agrees => /\ ~last_tx.verified
                          /\ status = "error"
                          /\ ~write_called

\* C8 witness: an increase whose log differs from the recorded event in the
\* liquidity amount alone has ended the run
C8_Witness ==
    /\ last_tx.op = "increase"
    /\ last_tx.log # NoLog
    /\ last_tx.log.amount # last_tx.event.amount
    /\ last_tx.log.amount0 = last_tx.event.amount0
    /\ status = "error"

\* C9: the writer is called only when every event has been taken and every
\* segment is closed by a close-out that ran to its end (the segment carries the
\* pool's closing price); a run that ended on any other error never called it.
C9_WriteOnlyAtEnd ==
    /\ write_called =>
          /\ pos = Len(events) + 1
          /\ processed = [k \in 1..(Len(events) - 2) |-> k + 2]
          /\ AllClosed
          /\ \A t \in DOMAIN position_info :
                \A i \in 1..Len(position_info[t]) :
                    position_info[t][i].liquidity_in > 0 =>
                        position_info[t][i].sqrt_price_limit_x96_out > 0
          /\ status = "done" \/ WriteFailed
    /\ (status \in { "error", "panic" } /\ ~WriteFailed) =>
          ~write_called /\ output = << >>
    /\ status \in { "init", "ready", "loop" } => ~write_called /\ output = << >>

\* C9 witness: the writer has been called after a replay that left a segment
\* for the finalization to close
C9_Witness ==
    /\ write_called
    /\ status = "done"
    /\ \E t \in DOMAIN last_op : last_op[t].kind # "Decrease"

\* C10: when the CollectNpm and CollectPool files differ in length the run ends
\* with an error before any event is replayed; when they agree the loading does
\* not fail.
C10_CollectCounts ==
    /\ (status # "init"
        /\ Len(input_files["CollectNpm"]) # Len(input_files["CollectPool"])) =>
          /\ status = "error"
          /\ events = << >>
          /\ processed = << >>
          /\ node = NodeInit
          /\ position_info = << >>
          /\ ~write_called
    /\ Len(input_files["CollectNpm"]) = Len(input_files["CollectPool"]) =>
          err # "Failed to get pool events from CSV"

\* C10 witness: the loading has failed on files with one CollectNpm event more
C10_Witness ==
    /\ status = "error"
    /\ err = "Failed to get pool events from CSV"
    /\ Len(input_files["CollectNpm"]) = Len(input_files["CollectPool"]) + 1

\* C11: the rows written depend on the inputs and the node alone, not on the
\* order in which the ledger's HashMap yields its token ids.
C11_RowsIndependentOfMapOrder ==
    status = "done" =>
        \A o \in Orders(position_info) : output = rows(position_info, o, 1)

\* C11, where it fails: rows of two token ids have been written in one of the
\* two orders the map may yield
C11_OrderDependent ==
    /\ status = "done"
    /\ Cardinality(DOMAIN position_info) = 2
    /\ \E o \in Orders(position_info) : output # rows(position_info, o, 1)

\* a token id whose whole history is a fresh mint and then a full decrease, in a
\* run that replayed no swap
MintedThenFullyBurned(t) ==
    /\ Len(position_info[t]) = 2
    /\ position_info[t][2].position_action = "ClosePosition"
    /\ last_op[t].kind = "Decrease"
    /\ last_op[t].liquidity = last_op[t].before
    /\ \A k \in 1..Len(processed) : events[processed[k]].event.type # "Swap"

\* C12: a position minted with liquidity L and then fully burned, with no swap,
\* gives exactly one row: action Open, closed, liquidity_in = L, amounts out
\* equal to the DecreaseLiquidity event's amounts, and no fees earned.
C12_MintThenFullBurnRow ==
    status = "done" =>
        \A t \in DOMAIN position_info :
            MintedThenFullyBurned(t) =>
                /\ Cardinality({ i \in 1..Len(output) : output[i].token_id = t }) = 1
                /\ \A i \in 1..Len(output) :
                      output[i].token_id = t =>
                          /\ output[i].position_action = "Open"
                          /\ output[i].closed
                          /\ output[i].liquidity_in = last_op[t].liquidity
                          /\ output[i].token_amount_out =
                                IF pool_config.clanker_is_token0
                                THEN last_op[t].amount0 ELSE last_op[t].amount1
                          /\ output[i].weth_amount_out =
                                IF pool_config.clanker_is_token0
                                THEN last_op[t].amount1 ELSE last_op[t].amount0
                          /\ output[i].fees_earned_token = 0
                          /\ output[i].fees_earned_weth = 0

\* C12, where it fails: the row of such a position reports as fees earned the
\* amounts the decrease itself paid out
C12_PrincipalAsFees ==
    /\ status = "done"
    /\ \E t \in DOMAIN position_info :
          /\ MintedThenFullyBurned(t)
          /\ \E i \in 1..Len(output) :
                /\ output[i].token_id = t
                /\ output[i].fees_earned_token = output[i].token_amount_out
                /\ output[i].fees_earned_weth = output[i].weth_amount_out
                /\ output[i].fees_earned_token > 0
                /\ output[i].fees_earned_weth > 0

\* the rows of token id t, in the order they were written
RowsOf(t) == SelectSeq(output, LAMBDA row : row.token_id = t)

\* the tag and the flags of the last segment of each token id, by the action
\* that appended it
TagsByAction ==
    /\ \A t \in DOMAIN position_info :
          /\ position_info[t][1].position_action = "Open"
          /\ \A i \in 2..Len(position_info[t]) :
                position_info[t][i].position_action # "Open"
    /\ status = "loop" =>
          \A t \in DOMAIN position_info :
              LET segs == position_info[t]
                  last == segs[Len(segs)]
              IN  /\ last_op[t].kind = "Open" => Len(segs) = 1
                  /\ last_op[t].kind = "Increase" =>
                        last.position_action = "IncreaseLiquidity" /\ ~last.closed
                  /\ (last_op[t].kind = "Decrease"
                      /\ last_op[t].liquidity # last_op[t].before) =>
                        last.position_action = "DecreaseLiquidity" /\ ~last.closed
                  /\ (last_op[t].kind = "Decrease"
                      /\ last_op[t].liquidity = last_op[t].before) =>
                        /\ last.position_action = "ClosePosition"
                        /\ last.closed
                        /\ last.liquidity_in = 0

\* the rows of a token id whose last action was a partial decrease d of L, or
\* an increase m of L when InRange(L + m): the last two rows are closed, the
\* last one tagged by the action with liquidity L - d or L + m
RowsByAction(InRange(_)) ==
    status = "done" =>
        \A t \in DOMAIN position_info :
            LET r == RowsOf(t)
                n == Len(r)
                L == last_op[t].before
            IN  /\ (last_op[t].kind = "Decrease" /\ last_op[t].liquidity < L) =>
                      /\ n >= 2
                      /\ Len(position_info[t]) = 2 => n = 2 /\ r[1].position_action = "Open"
                      /\ r[n - 1].closed /\ r[n - 1].liquidity_in = L
                      /\ r[n].closed
                      /\ r[n].position_action = "DecreaseLiquidity"
                      /\ r[n].liquidity_in = L - last_op[t].liquidity
                /\ (last_op[t].kind = "Increase" /\ InRange(L + last_op[t].liquidity)) =>
                      /\ n >= 2
                      /\ Len(position_info[t]) = 2 => n = 2 /\ r[1].position_action = "Open"
                      /\ r[n - 1].closed /\ r[n - 1].liquidity_in = L
                      /\ r[n].closed
                      /\ r[n].position_action = "IncreaseLiquidity"
                      /\ r[n].liquidity_in = L + last_op[t].liquidity

C14_FinalizedByFullSimulatedDecrease ==
    status = "done" =>
        /\ AllClosed
        /\ \A t \in DOMAIN position_info :
              ~(last_op[t].kind = "Decrease" /\ last_op[t].liquidity = last_op[t].before) =>
                  LET s == position_info[t][Len(position_info[t])]
                      amount0 == s.liquidity_in * (1 - node.tick)
                      amount1 == s.liquidity_in * (1 + node.tick)
                  IN  /\ s.closed
                      /\ s.block_out = 0
                      /\ s.liquidity_in > 0
                      /\ s.token_amount_out =
                            IF pool_config.clanker_is_token0 THEN amount0 ELSE amount1
                      /\ s.weth_amount_out =
                            IF pool_config.clanker_is_token0 THEN amount1 ELSE amount0

\* C14 witness: the finalization has closed a segment left open by a mint or
\* an increase, after a swap had moved the pool's tick
C14_Witness ==
    /\ status = "done"
    /\ node.tick # 0
    /\ \E t \in DOMAIN position_info :
          /\ last_op[t].kind # "Decrease"
          /\ position_info[t][Len(position_info[t])].block_out = 0

----------------------------------------------------------------------------
(* The replay primitives, attempt by attempt *)

\* let max_attempts = 4
max_attempts == 4

Primitives == { "pool_mint", "pool_increase_liquidity", "collect_max_fees",
                "pool_swap_exact_input", "pool_swap_exact_output", "pool_burn" }

\* the primitives that send their transaction in a retry loop
Retried == Primitives \ { "pool_burn" }

\* the fields the primitive verifies in the log of its receipt
verified_fields(prim) ==
    IF prim \in { "pool_swap_exact_input", "pool_swap_exact_output" } THEN SwapFields
    ELSE IF prim = "collect_max_fees" THEN {}
    ELSE MintFields

main_vars == << input_files, events, pos, status, err, pool_config, token_id_map,
               position_info, node, last_tx, last_op, processed, write_called, output,
               build >>

InitRetry ==
    /\ input_files = files_of(<< >>, "perblock")
    /\ events = << >>
    /\ pos = 1
    /\ status = "loop"
    /\ err = ""
    /\ pool_config = [clanker_is_token0 |-> FALSE]
    /\ token_id_map = << >>
    /\ position_info = << >>
    /\ node = NodeInit
    /\ last_tx = NoTx
    /\ last_op = << >>
    /\ processed = << >>
    /\ write_called = FALSE
    /\ output = << >>
    /\ build = "debug"
    /\ \E prim \in Primitives : call = [NoCall EXCEPT !.prim = prim, !.pc = "loop"]

\* while attempts < max_attempts (pool_burn sends once, with no loop)
CanSend == call.pc = "loop" /\ call.attempts < max_attempts

\* .send().await? fails: the error is returned at once
SendFails ==
    /\ CanSend
    /\ call' = [call EXCEPT !.pc = "done", !.result = "error"]
    /\ UNCHANGED main_vars

\* Ok(r) with r.inner.status(): the receipt is kept and the loop is left
ReceiptSuccess ==
    /\ CanSend
    /\ \E d \in Differences(verified_fields(call.prim)) :
          call' = [call EXCEPT !.pc = "check", !.submitted = @ + 1,
                               !.receipt = "success", !.d = d]
    /\ UNCHANGED main_vars

\* a mismatch found by check_*_outcomes: bail!
after_mismatch_retry(c) ==
    [c EXCEPT !.pc = "loop", !.attempts = @ + 1, !.receipt = "none", !.d = {}]

after_mismatch(c) == [c EXCEPT !.pc = "done", !.result = "error"]

\* a faulty handling of a failed attempt that retries in every primitive
after_failed_attempt_retried(c) == [c EXCEPT !.submitted = @ + 1, !.attempts = @ + 1]

\* a receipt with status false, or get_receipt() failing: one attempt is used up
\* in a retry loop; pool_burn returns the error
after_failed_attempt(c) ==
    IF c.prim \in Retried
    THEN [c EXCEPT !.submitted = @ + 1, !.attempts = @ + 1]
    ELSE [c EXCEPT !.submitted = @ + 1, !.pc = "done", !.result = "error"]

\* Ok(r) with status false
ReceiptReverted ==
    /\ CanSend
    /\ call' = after_failed_attempt(call)
    /\ UNCHANGED main_vars

\* Err(e) from get_receipt()
ReceiptError ==
    /\ CanSend
    /\ call' = after_failed_attempt(call)
    /\ UNCHANGED main_vars

\* the loop ends with no receipt: "Failed to ... after 4 attempts"
Exhausted ==
    /\ call.pc = "loop"
    /\ call.attempts >= max_attempts
    /\ call' = [call EXCEPT !.pc = "done", !.result = "error"]
    /\ UNCHANGED main_vars

\* check_mint_outcomes, check_burn_outcomes, check_swap_outcomes on the receipt
CheckOutcomes ==
    /\ call.pc = "check"
    /\ call' = IF call.d # {} THEN after_mismatch(call)
               ELSE [call EXCEPT !.pc = "done", !.result = "ok"]
    /\ UNCHANGED main_vars

NextRetry ==
    \/ SendFails
    \/ ReceiptSuccess
    \/ ReceiptReverted
    \/ ReceiptError
    \/ Exhausted
    \/ CheckOutcomes

SpecRetry == InitRetry /\ [][NextRetry]_vars

\* C15: a retried primitive submits at most four transactions; a failed attempt
\* of any kind uses up one attempt and is retried, so that the primitive gives up
\* only after four attempts; with no successful receipt it returns an error; a
\* successful receipt ends the retries at once.
C15_BoundedRetry ==
    call.prim \in Retried =>
        /\ call.submitted <= max_attempts
        /\ call.attempts <= max_attempts
        /\ (call.result = "error" /\ call.receipt # "success") =>
              call.attempts = max_attempts
        /\ (call.pc = "done" /\ call.receipt # "success") => call.result = "error"
        /\ call.receipt = "success" => call.submitted = call.attempts + 1

\* C15, where it fails: a retried primitive has returned an error before its
\* attempts were used up, with no successful receipt
C15_AbortBeforeRetriesUsedUp ==
    /\ call.prim \in Retried
    /\ call.result = "error"
    /\ call.receipt # "success"
    /\ call.attempts \in 1..(max_attempts - 1)

\* C16: once a primitive holds a successful receipt it submits nothing more, and
\* a log that differs from the recorded event makes it return an error.
C16_MismatchNeverRetried ==
    [][ call.receipt = "success" =>
          /\ call'.submitted = call.submitted
          /\ call'.receipt = "success"
          /\ call'.pc = "done"
          /\ call'.result = IF call.d # {} THEN "error" ELSE "ok" ]_vars

\* C16 witness: a swap that was retried twice, then got a receipt whose log
\* differs in one field, has returned an error after three transactions
C16_Witness ==
    /\ call.prim = "pool_swap_exact_output"
    /\ call.pc = "done"
    /\ call.receipt = "success"
    /\ Cardinality(call.d) = 1
    /\ call.submitted = 3
    /\ call.result = "error"

\* the event that has to come right before a fused-only event
FusedAfter(type) ==
    CASE type = "Initialize" -> "PoolCreated"
      [] type = "IncreaseLiquidity" -> "Mint"
      [] type = "DecreaseLiquidity" -> "Burn"
      [] OTHER -> "none"

\* the event at place i is fused-only and the event right before it is not the
\* one that consumes it
Standalone(i) ==
    /\ FusedAfter(events[i].event.type) # "none"
    /\ ~ (i > 1 /\ events[i - 1].event.type = FusedAfter(events[i].event.type))

\* C17: a standalone Initialize, IncreaseLiquidity or DecreaseLiquidity at any
\* place of the stream makes the run end with an error: the run never gets past
\* one in another way.
C17_StandaloneIsFatal ==
    \A i \in 1..Len(events) : (i < pos /\ Standalone(i)) => status = "error"

\* C17, where it fails: the run has finished with its output written although
\* the stream began with a standalone IncreaseLiquidity and DecreaseLiquidity
C17_StandaloneSkipped ==
    /\ status = "done"
    /\ output # << >>
    /\ Len(events) >= 2
    /\ Standalone(1) /\ events[1].event.type = "IncreaseLiquidity"
    /\ Standalone(2) /\ events[2].event.type = "DecreaseLiquidity"

\* the types that may come right after an event of a fusing type
FusedWith(type) ==
    CASE type = "PoolCreated" -> { "Initialize" }
      [] type = "Mint" -> { "IncreaseLiquidity" }
      [] type = "Burn" -> { "CollectPool", "DecreaseLiquidity" }
      [] OTHER -> { }

\* the loop is about to take a fusing event that its partner does not follow,
\* the end of the stream included
FusionFails ==
    /\ status = "loop"
    /\ pos <= Len(events)
    /\ FusedWith(events[pos].event.type) # { }
    /\ \/ pos = Len(events)
       \/ /\ pos < Len(events)
          /\ events[pos + 1].event.type \notin FusedWith(events[pos].event.type)

\* C18: the step that takes a fusing event whose partner does not follow ends
\* the run with an error, goes past the first event only, and leaves the ledger
\* and the token-id map as they were.
C18_FusionFailureAborts ==
    [][ FusionFails =>
          /\ status' = "error"
          /\ pos' = pos + 1
          /\ processed' = Append(processed, pos)
          /\ position_info' = position_info
          /\ token_id_map' = token_id_map ]_vars

\* C18 witness: with positions in the ledger, a Burn that a Swap follows has
\* ended the run; the Swap was not taken
C18_Witness ==
    /\ status = "error"
    /\ err = "Next event is not a collectPool or decreaseLiquidity"
    /\ pos <= Len(events)
    /\ events[pos].event.type = "Swap"
    /\ events[pos - 1].event.type = "Burn"
    /\ DOMAIN position_info # { }

\* the loop is about to take a Burn fused with a DecreaseLiquidity whose
\* recorded token id the map does not hold
BurnOfUnknownToken ==
    /\ status = "loop"
    /\ pos < Len(events)
    /\ events[pos].event.type = "Burn"
    /\ events[pos + 1].event.type = "DecreaseLiquidity"
    /\ events[pos + 1].event.tokenId \notin DOMAIN token_id_map

\* C19: the step that takes a Burn with a DecreaseLiquidity of an unknown
\* recorded token id ends the run with an error, sends no transaction to the
\* node and leaves the ledger as it was.
C19_UnknownTokenBurnAborts ==
    [][ BurnOfUnknownToken =>
          /\ status' = "error"
          /\ err' = "Token id not found for Burn"
          /\ node' = node
          /\ last_tx' = last_tx
          /\ position_info' = position_info
          /\ token_id_map' = token_id_map ]_vars

\* C19 witness: the run has ended on a Burn whose DecreaseLiquidity names the
\* recorded id 11 while the map holds only another id, with its position open
C19_Witness ==
    /\ status = "error"
    /\ err = "Token id not found for Burn"
    /\ DOMAIN token_id_map = { 12 }
    /\ events[pos - 1].event.type = "DecreaseLiquidity"
    /\ events[pos - 1].event.tokenId = 11
    /\ last_tx.op # "burn"
    /\ \E t \in DOMAIN position_info : ~ position_info[t][Len(position_info[t])].closed

\* the loop is about to take an increase or a decrease of a token id whose last
\* segment is closed
ChangesClosedPosition ==
    /\ status = "loop"
    /\ pos < Len(events)
    /\ \/ /\ events[pos].event.type = "Mint"
          /\ events[pos + 1].event.type = "IncreaseLiquidity"
       \/ /\ events[pos].event.type = "Burn"
          /\ events[pos + 1].event.type = "DecreaseLiquidity"
    /\ events[pos + 1].event.tokenId \in DOMAIN token_id_map
    /\ LET t == token_id_map[events[pos + 1].event.tokenId]
       IN  /\ t \in DOMAIN position_info
           /\ position_info[t][Len(position_info[t])].closed

\* a step that takes an increase or a decrease of a closed position ends the run
\* with an error
ClosedPositionIsAnError == [][ ChangesClosedPosition => status' = "error" ]_vars

\* C20: a step that takes an increase or a decrease of a token id whose last
\* segment is closed ends the run with an error, and no step changes a segment
\* that is closed.
C20_ClosedSegmentsUntouched ==
    [][ /\ ChangesClosedPosition => status' = "error"
        /\ \A t \in DOMAIN position_info :
             \A i \in 1..Len(position_info[t]) :
                position_info[t][i].closed =>
                    /\ t \in DOMAIN position_info'
                    /\ i <= Len(position_info'[t])
                    /\ position_info'[t][i] = position_info[t][i] ]_vars

\* C20, where it fails: after a full close an increase of the same token id has
\* ended the run, and the terminal ClosePosition segment, which was made with
\* block_out 0 and no closing price, now carries the block and the price of the
\* increase
C20_ClosedSegmentClosedAgain ==
    /\ status = "error"
    /\ last_tx.op = "increase"
    /\ \E t \in DOMAIN position_info :
          LET seg == position_info[t][Len(position_info[t])]
          IN  /\ seg.position_action = "ClosePosition"
              /\ seg.liquidity_in = 0
              /\ seg.block_out > 0
              /\ seg.sqrt_price_limit_x96_out > 0

\* the loop is about to take a Mint that an IncreaseLiquidity follows
MintFused ==
    /\ status = "loop"
    /\ pos < Len(events)
    /\ events[pos].event.type = "Mint"
    /\ events[pos + 1].event.type = "IncreaseLiquidity"

\* C21: a step that takes a Mint fused with an IncreaseLiquidity of recorded
\* token id r and goes on: if r is not mapped, a mint was sent, r is mapped to
\* the node's new token id, and the ledger holds for that id one segment (index 0,
\* Open, not closed, liquidity_in the Mint's amount), the other entries being as
\* before; if r is mapped, an increaseLiquidity was sent for the mapped id, no
\* position was minted, and the map and the ledger's keys are as before (the
\* latter two also when the step ends the run).
C21_MintDispatch ==
    [][ MintFused =>
          LET r == events[pos + 1].event.tokenId
          IN  IF r \notin DOMAIN token_id_map
              THEN status' = "loop" =>
                     /\ last_tx'.op = "mint"
                     /\ DOMAIN token_id_map' = DOMAIN token_id_map \cup { r }
                     /\ token_id_map'[r] = node.next_id
                     /\ node'.next_id = node.next_id + 1
                     /\ \A x \in DOMAIN token_id_map : token_id_map'[x] = token_id_map[x]
                     /\ DOMAIN position_info' = DOMAIN position_info \cup { node.next_id }
                     /\ node.next_id \notin DOMAIN position_info
                     /\ \A t \in DOMAIN position_info : position_info'[t] = position_info[t]
                     /\ LET segs == position_info'[node.next_id]
                        IN  /\ Len(segs) = 1
                            /\ segs[1].index = 0
                            /\ segs[1].position_action = "Open"
                            /\ ~ segs[1].closed
                            /\ segs[1].liquidity_in = events[pos].event.amount
                            /\ segs[1].token_id = node.next_id
                            /\ segs[1].original_token_id = r
              ELSE /\ token_id_map' = token_id_map
                   /\ DOMAIN position_info' = DOMAIN position_info
                   /\ node'.next_id = node.next_id
                   /\ Len(node'.liq) = Len(node.liq)
                   /\ last_tx'.op \in { "increase", last_tx.op }
                   /\ status' = "loop" => last_tx'.op = "increase" ]_vars

\* C21 witness: two recorded ids have been minted and mapped to the node's
\* token ids 1 and 2, and the first has then been increased
C21_Witness ==
    /\ status = "loop"
    /\ DOMAIN token_id_map = { 11, 12 }
    /\ token_id_map[11] = 1 /\ token_id_map[12] = 2
    /\ Len(position_info[1]) = 2 /\ Len(position_info[2]) = 1
    /\ position_info[1][2].position_action = "IncreaseLiquidity"
    /\ node.next_id = 3

\* the loop is about to take an increase of a position the ledger holds
IncreaseOfExisting ==
    /\ MintFused
    /\ events[pos + 1].event.tokenId \in DOMAIN token_id_map
    /\ token_id_map[events[pos + 1].event.tokenId] \in DOMAIN position_info

\* C22: in a step that takes an increase of an existing position the segment is
\* closed and the next one pushed before increaseLiquidity is sent: whenever the
\* transaction was sent, whether it then failed or changed the position on the
\* node, the ledger holds the closed segment and one more.
C22_CloseOutBeforeIncrease ==
    [][ IncreaseOfExisting =>
          LET t == token_id_map[events[pos + 1].event.tokenId]
              n == Len(position_info[t])
          IN  ( \/ node'.liq[t] # node.liq[t]
                \/ err' = "Failed to increase liquidity after 4 attempts" )
              => /\ Len(position_info'[t]) = n + 1
                 /\ position_info'[t][n].closed ]_vars

\* C22, where it fails: the close-out has failed on its first request, with the
\* segment still the last of its token id, after the increase was sent, mined
\* and verified: the node holds more liquidity than the ledger's open position
C22_IncreaseSentFirst ==
    /\ status = "error"
    /\ err = "Failed to collect fees after 4 attempts"
    /\ last_tx.op = "increase"
    /\ last_tx.verified
    /\ events[pos - 1].event.type = "IncreaseLiquidity"
    /\ events[pos - 1].event.tokenId \in DOMAIN token_id_map
    /\ LET t == token_id_map[events[pos - 1].event.tokenId]
           seg == position_info[t][Len(position_info[t])]
       IN  /\ seg.position_action = "Open"
           /\ seg.sqrt_price_limit_x96_out = 0
           /\ node.liq[t] = seg.liquidity_in + last_tx.log.amount

\* the loop is about to take a Burn that a DecreaseLiquidity of a token id of
\* the ledger follows
DecreaseOfExisting ==
    /\ status = "loop"
    /\ pos < Len(events)
    /\ events[pos].event.type = "Burn"
    /\ events[pos + 1].event.type = "DecreaseLiquidity"
    /\ events[pos + 1].event.tokenId \in DOMAIN token_id_map
    /\ token_id_map[events[pos + 1].event.tokenId] \in DOMAIN position_info

\* the five fields check_burn_outcomes compares agree
SameBurn(log, burn_event) ==
    /\ log.amount0 = burn_event.amount0
    /\ log.amount1 = burn_event.amount1
    /\ log.amount = burn_event.amount
    /\ log.tickLower = burn_event.tickLower
    /\ log.tickUpper = burn_event.tickUpper

\* C23: a step that takes a Burn with its DecreaseLiquidity takes both events;
\* the ledger changes only after decreaseLiquidity was mined at the recorded
\* liquidity with a Burn log equal to the recorded Burn; when the call or the
\* verification fails the ledger is as before; when the step goes on, the segment
\* is closed and exactly one segment follows it, ClosePosition if the recorded
\* liquidity is the segment's liquidity_in and DecreaseLiquidity otherwise.
C23_BurnThenCloseThenAppend ==
    [][ DecreaseOfExisting =>
          LET burn_event == events[pos].event
              dl == events[pos + 1].event
              t == token_id_map[dl.tokenId]
              n == Len(position_info[t])
              old == position_info[t][n]
          IN  /\ pos' = pos + 2
              /\ token_id_map' = token_id_map
              /\ \A x \in DOMAIN position_info \ { t } :
                    position_info'[x] = position_info[x]
              /\ Len(position_info'[t]) \in { n, n + 1 }
              /\ \A i \in 1..(n - 1) : position_info'[t][i] = position_info[t][i]
              /\ err' \in { "Failed to burn", "Mismatch in burn outcomes" } =>
                    position_info' = position_info
              /\ position_info' # position_info =>
                    /\ last_tx'.op = "burn"
                    /\ last_tx'.verified
                    /\ SameBurn(last_tx'.log, burn_event)
                    /\ node'.liq[t] = node.liq[t] - dl.liquidity
                    /\ position_info'[t][n].closed
              /\ Len(position_info'[t]) = n + 1 <=> status' = "loop"
              /\ status' = "loop" =>
                    /\ position_info'[t][n + 1].index = n
                    /\ position_info'[t][n + 1].position_action =
                          IF dl.liquidity = old.liquidity_in THEN "ClosePosition"
                          ELSE "DecreaseLiquidity" ]_vars

\* C23 witness: a position of liquidity 2 has been decreased by 1 and then by 1
\* again, which pushed a DecreaseLiquidity and then a ClosePosition segment
C23_Witness ==
    /\ status = "loop"
    /\ last_tx.op = "burn"
    /\ \E t \in DOMAIN position_info :
          /\ Len(position_info[t]) = 3
          /\ position_info[t][1].liquidity_in = 2
          /\ position_info[t][2].position_action = "DecreaseLiquidity"
          /\ position_info[t][2].liquidity_in = 1
          /\ position_info[t][3].position_action = "ClosePosition"
          /\ node.liq[t] = 0

\* the loop is about to take a Burn of a non-zero amount that a CollectPool
\* follows
BurnBeforeCollect ==
    /\ status = "loop"
    /\ pos < Len(events)
    /\ events[pos].event.type = "Burn"
    /\ events[pos].event.amount # 0
    /\ events[pos + 1].event.type = "CollectPool"

\* C24: a Burn of a non-zero amount that a CollectPool follows is not dropped:
\* the step that takes it replays a decrease on the node or ends the run.
C24_OnlyZeroBurnsDropped ==
    [][ BurnBeforeCollect => (status' = "error" \/ node' # node) ]_vars

\* C24, where it fails: the run has finished after it took a Burn of amount 1
\* together with the CollectPool behind it, while the position the ledger holds
\* has all its liquidity on the node and in its rows
C24_NonZeroBurnDropped ==
    /\ status = "done"
    /\ Len(events) >= 2
    /\ events[Len(events) - 1].event.type = "Burn"
    /\ events[Len(events) - 1].event.amount = 1
    /\ events[Len(events)].event.type = "CollectPool"
    /\ last_tx.op = "mint"
    /\ output # << >>
    /\ \A k \in 1..Len(output) : output[k].liquidity_in = last_tx.log.amount

\* C25: an iteration of the loop takes the current event and at most one more,
\* in order; it takes the second only when that event's type may be fused with
\* the current one's; an iteration on a Swap, a CollectPool or a CollectNpm takes
\* one event.
C25_OneEventLookahead ==
    [][ (status = "loop" /\ pos <= Len(events)) =>
          /\ pos' \in { pos + 1, pos + 2 }
          /\ processed' = processed \o [k \in 1..(pos' - pos) |-> pos + k - 1]
          /\ events' = events
          /\ pos' = pos + 2 =>
                /\ pos + 1 <= Len(events)
                /\ events[pos + 1].event.type \in FusedWith(events[pos].event.type)
          /\ events[pos].event.type \in { "Swap", "CollectPool", "CollectNpm" } =>
                pos' = pos + 1 ]_vars

\* C25 witness: a Burn took the CollectPool behind it, and the next iteration
\* took a standalone CollectNpm alone and left the Swap behind it to be taken
C25_Witness ==
    /\ status = "loop"
    /\ Len(processed) >= 3
    /\ pos = processed[Len(processed)] + 1
    /\ pos <= Len(events)
    /\ events[pos].event.type = "Swap"
    /\ events[pos - 1].event.type = "CollectNpm"
    /\ events[pos - 2].event.type = "CollectPool"
    /\ events[pos - 3].event.type = "Burn"
    /\ processed[Len(processed) - 2] = pos - 3

\* C26: an iteration on a Swap, a CollectPool or a CollectNpm leaves the token-id
\* map and the ledger as they were, and on a CollectPool or a CollectNpm it sends
\* nothing to the node and goes on; only the fresh-mint branch of the Mint arm
\* changes the token-id map; once the analyzer is initialized the pool
\* configuration stays as it is.
C26_Frame ==
    [][ /\ (status = "loop" /\ pos <= Len(events)
              /\ events[pos].event.type \in { "Swap", "CollectPool", "CollectNpm" }) =>
             /\ token_id_map' = token_id_map
             /\ position_info' = position_info
             /\ events[pos].event.type # "Swap" =>
                   /\ node' = node
                   /\ last_tx' = last_tx
                   /\ status' = "loop"
        /\ token_id_map' # token_id_map =>
             /\ MintFused
             /\ events[pos + 1].event.tokenId \notin DOMAIN token_id_map
             /\ DOMAIN token_id_map' = DOMAIN token_id_map \cup { events[pos + 1].event.tokenId }
        /\ status # "init" => pool_config' = pool_config ]_vars

\* C26 witness: with an open position in the ledger, a Burn of amount 0 was
\* dropped with its CollectPool and a standalone CollectNpm was then taken; the
\* last transaction is still the mint
C26_Witness ==
    /\ status = "loop"
    /\ DOMAIN token_id_map # { }
    /\ \E t \in DOMAIN position_info : ~ position_info[t][1].closed
    /\ last_tx.op = "mint" /\ last_tx.verified
    /\ pos >= 5
    /\ events[pos - 1].event.type = "CollectNpm"
    /\ events[pos - 2].event.type = "CollectPool"
    /\ processed[Len(processed)] = pos - 1

----------------------------------------------------------------------------
(* chain_interactions/swap.rs: how a recorded Swap is replayed *)

\* bound of the recorded swap amounts and of the quoter's answers
MaxAmount == 2

abs(x) == IF x < 0 THEN -x ELSE x

\* swap_params: the side that comes in and the absolute amounts
swap_params(swap_event) ==
    IF swap_event.amount0 < 0
    THEN [token_in |-> "token1", token_out |-> "token0",
          amount_in |-> abs(swap_event.amount1), amount_out |-> abs(swap_event.amount0)]
    ELSE [token_in |-> "token0", token_out |-> "token1",
          amount_in |-> abs(swap_event.amount0), amount_out |-> abs(swap_event.amount1)]

\* a faulty choice that never tries the exact-output call
swap_direction_exact_input(params, quoted) == "ExactInput"

\* swap_direction: exact input when the quote of amount_in is the recorded output
swap_direction(params, quoted) ==
    IF quoted = params.amount_out THEN "ExactInput" ELSE "ExactOutput"

\* ExactInputSingleParams
exact_input_params(params) ==
    [fn |-> "exactInputSingle", tokenIn |-> params.token_in, tokenOut |-> params.token_out,
     amountIn |-> params.amount_in, amountOutMinimum |-> 0]

\* ExactOutputSingleParams
exact_output_params(params) ==
    [fn |-> "exactOutputSingle", tokenIn |-> params.token_in, tokenOut |-> params.token_out,
     amountOut |-> params.amount_out, amountInMaximum |-> params.amount_in]

\* the recorded swaps, and what the quoter answers: an amount, or -1 for a
\* failed request
SwapEvents == [type : { "Swap" }, amount0 : (-MaxAmount)..MaxAmount,
               amount1 : (-MaxAmount)..MaxAmount]
Quotes == (-1)..MaxAmount

InitSwap ==
    /\ input_files = files_of(<< >>, "perblock")
    /\ events = << >>
    /\ pos = 1
    /\ status = "loop"
    /\ err = ""
    /\ pool_config = [clanker_is_token0 |-> FALSE]
    /\ token_id_map = << >>
    /\ position_info = << >>
    /\ node = NodeInit
    /\ last_tx = NoTx
    /\ last_op = << >>
    /\ processed = << >>
    /\ write_called = FALSE
    /\ output = << >>
    /\ build = "debug"
    /\ \E e \in SwapEvents, q \in Quotes :
          call = [prim |-> "pool_swap", pc |-> "swap_params", swap_event |-> e,
                  quoted |-> q, params |-> NoEvent, direction |-> "none",
                  attempts |-> 0, router |-> << >>, result |-> "none"]

\* let swap_params = swap_params(swap_event, &pool).await?
SwapParams ==
    /\ call.prim = "pool_swap"
    /\ call.pc = "swap_params"
    /\ call' = [call EXCEPT !.params = swap_params(call.swap_event),
                            !.pc = "swap_direction"]
    /\ UNCHANGED main_vars

\* let swap_direction = swap_direction(&swap_params, &quoter).await?
SwapDirection ==
    /\ call.prim = "pool_swap"
    /\ call.pc = "swap_direction"
    /\ call' = IF call.quoted < 0
               THEN [call EXCEPT !.pc = "done", !.result = "error"]
               ELSE [call EXCEPT !.direction = swap_direction(call.params, call.quoted),
                                 !.pc = "router"]
    /\ UNCHANGED main_vars

\* one attempt of the router call c: a good receipt ends the primitive, with an
\* error if check_swap_outcomes finds its log to differ; a bad one uses up an
\* attempt
router_attempt(c, receipt) ==
    IF receipt = "success"
    THEN [call EXCEPT !.router = Append(@, c), !.pc = "done", !.result = "ok"]
    ELSE IF receipt = "mismatch"
    THEN [call EXCEPT !.router = Append(@, c), !.pc = "done", !.result = "error"]
    ELSE IF call.attempts + 1 >= max_attempts
    THEN [call EXCEPT !.router = Append(@, c), !.attempts = @ + 1,
                      !.pc = "done", !.result = "error"]
    ELSE [call EXCEPT !.router = Append(@, c), !.attempts = @ + 1]

\* SwapDirection::ExactInput => pool_swap_exact_input
SwapExactInput ==
    /\ call.prim = "pool_swap"
    /\ call.pc = "router"
    /\ call.direction = "ExactInput"
    /\ \E receipt \in { "success", "mismatch", "failed" } :
          call' = router_attempt(exact_input_params(call.params), receipt)
    /\ UNCHANGED main_vars

\* SwapDirection::ExactOutput => pool_swap_exact_output
SwapExactOutput ==
    /\ call.prim = "pool_swap"
    /\ call.pc = "router"
    /\ call.direction = "ExactOutput"
    /\ \E receipt \in { "success", "mismatch", "failed" } :
          call' = router_attempt(exact_output_params(call.params), receipt)
    /\ UNCHANGED main_vars

NextSwap ==
    \/ SwapParams
    \/ SwapDirection
    \/ SwapExactInput
    \/ SwapExactOutput

SpecSwap == InitSwap /\ [][NextSwap]_vars

\* C27: with the side that comes in and the amounts taken from the signs of the
\* recorded amounts (amount0 < 0: token1 in, |amount1| in, |amount0| out;
\* otherwise token0 in, |amount0| in, |amount1| out), every router call of a
\* Swap is exactInputSingle(amount_in) if the quote of amount_in is amount_out,
\* and exactOutputSingle(amount_out, at most amount_in) if it is not; a replayed
\* Swap has used one of the two calls and never both.
C27_SwapDirection ==
    LET e == call.swap_event
        negative0 == e.amount0 < 0
        token_in == IF negative0 THEN "token1" ELSE "token0"
        token_out == IF negative0 THEN "token0" ELSE "token1"
        amount_in == IF negative0 THEN abs(e.amount1) ELSE abs(e.amount0)
        amount_out == IF negative0 THEN abs(e.amount0) ELSE abs(e.amount1)
    IN  /\ \A k \in 1..Len(call.router) :
              LET c == call.router[k]
              IN  /\ c.tokenIn = token_in
                  /\ c.tokenOut = token_out
                  /\ c.fn = "exactInputSingle" <=> call.quoted = amount_out
                  /\ c.fn = "exactInputSingle" => c.amountIn = amount_in
                  /\ c.fn = "exactOutputSingle" =>
                        /\ c.amountOut = amount_out
                        /\ c.amountInMaximum = amount_in
                  /\ c.fn = call.router[1].fn
        /\ call.result = "ok" => Len(call.router) >= 1

\* C27 witness: a swap with token1 coming in (amount0 -1, amount1 2), quoted at
\* 2 for 1 wanted, was replayed by exactOutputSingle, which succeeded at its
\* second attempt
C27_Witness ==
    /\ call.pc = "done"
    /\ call.result = "ok"
    /\ call.swap_event.amount0 = -1
    /\ call.swap_event.amount1 = 2
    /\ call.quoted = 2
    /\ Len(call.router) = 2
    /\ call.router[2] = [fn |-> "exactOutputSingle", tokenIn |-> "token1",
                         tokenOut |-> "token0", amountOut |-> 1, amountInMaximum |-> 2]

\* C28: pool_burn sends its decreaseLiquidity at most once: it is still to send
\* only while nothing was sent, it counts no attempts, and without a successful
\* receipt it has returned an error.
C28_BurnSentOnce ==
    call.prim = "pool_burn" =>
        /\ call.submitted <= 1
        /\ call.attempts = 0
        /\ call.pc = "loop" => call.submitted = 0
        /\ (call.pc = "done" /\ call.receipt # "success") => call.result = "error"
        /\ call.submitted = 1 => call.pc # "loop"

\* C28 witness: pool_burn has returned an error after its one transaction came
\* back without a successful receipt
C28_Witness ==
    /\ call.prim = "pool_burn"
    /\ call.pc = "done"
    /\ call.submitted = 1
    /\ call.receipt = "none"
    /\ call.result = "error"

\* the closing amounts of segment p are those of the decrease event dl (NoEvent
\* for none) and of a simulated decrease of the liquidity rest at the node nd
ClosingAmounts(p, L, dl, rest, nd) ==
    LET sim == oriented(pool_config, node_amounts(nd, rest)[1], node_amounts(nd, rest)[2])
        ev == IF dl.type = "None" THEN << 0, 0 >>
              ELSE oriented(pool_config, dl.amount0, dl.amount1)
    IN  /\ p.closed
        /\ p.liquidity_in = L
        /\ p.token_amount_out = ev[1] + (IF rest = 0 THEN 0 ELSE sim[1])
        /\ p.weth_amount_out = ev[2] + (IF rest = 0 THEN 0 ELSE sim[2])

\* a step that closes a segment of liquidity L computes its amounts out by the
\* three cases: for a decrease event of liquidity d in range
\* the event's amounts if d = L and the event's amounts plus a simulated decrease
\* of L - d otherwise; with no decrease event a simulated decrease of L; the node
\* loses no liquidity to a simulation
ClosingCases(in_range) ==
    /\ (DecreaseOfExisting /\ position_info' # position_info) =>
          LET dl == events[pos + 1].event
              t == token_id_map[dl.tokenId]
              n == Len(position_info[t])
              L == position_info[t][n].liquidity_in
          IN  /\ in_range => dl.liquidity <= L
              /\ node'.liq[t] = node.liq[t] - dl.liquidity
              /\ (status' = "loop" /\ dl.liquidity <= L) =>
                    ClosingAmounts(position_info'[t][n], L, dl, L - dl.liquidity, node')
    /\ (IncreaseOfExisting /\ status' = "loop") =>
          LET t == token_id_map[events[pos + 1].event.tokenId]
              n == Len(position_info[t])
              L == position_info[t][n].liquidity_in
          IN  /\ ClosingAmounts(position_info'[t][n], L, NoEvent, L, node')
              /\ node'.liq[t] = node.liq[t] + last_tx'.log.amount
    /\ (status = "loop" /\ pos > Len(events)) => node'.liq = node.liq

\* C29: the closing amounts follow the three cases, no simulated decrease
\* changes the node, and the liquidity of a decrease event never exceeds the
\* liquidity of the segment it closes.
C29_ClosingAmountsByCase == [][ ClosingCases(TRUE) ]_vars

\* the three cases and the read-only simulations alone
ClosingAmountsInRange == [][ ClosingCases(FALSE) ]_vars

\* C29, where it fails: decreaseLiquidity was mined and verified for a liquidity
\* above the segment's liquidity_in, and the close-out has ended the run on the
\* difference
C29_NegativeResidual ==
    /\ status \in { "error", "panic" }
    /\ last_tx.op = "burn"
    /\ last_tx.verified
    /\ events[pos - 1].event.type = "DecreaseLiquidity"
    /\ events[pos - 1].event.tokenId \in DOMAIN token_id_map
    /\ LET t == token_id_map[events[pos - 1].event.tokenId]
           seg == position_info[t][Len(position_info[t])]
       IN  /\ seg.closed
           /\ seg.liquidity_in < events[pos - 1].event.liquidity

\* the PnL fields of a closed segment p, the simulated sale being quoted at the
\* tick the segment was closed at and a sale of nothing being worth nothing
PnLOf(p) ==
    LET sold == p.token_amount_out + p.fees_earned_token
        sim_sell == IF sold = 0 THEN 0 ELSE node_quote([tick |-> p.tick_out], sold)
    IN  /\ p.approx_ending_weth = sim_sell + p.weth_amount_out + p.fees_earned_weth
        /\ p.end_weth_gain_separate =
              p.weth_amount_out + p.fees_earned_weth - p.weth_amount_in
        /\ p.end_token_gain_separate =
              p.token_amount_out + p.fees_earned_token - p.token_amount_in
        /\ p.end_weth_gain_converted = p.approx_ending_weth - p.approx_starting_weth

\* C30: a step that closes a segment and goes on leaves it with the fees the
\* position was owed, token0's as the base token's when the base token is token0
\* and token1's otherwise, and with approx_ending_weth = sim_sell(token out +
\* token fees) + weth out + weth fees and the three gains as signed differences;
\* a close with nothing to sell does not depend on the simulated sale.
C30_PnLAtClose ==
    [][ \A t \in DOMAIN position_info :
          LET n == Len(position_info[t])
              decreased == /\ DecreaseOfExisting
                           /\ t = token_id_map[events[pos + 1].event.tokenId]
              owed == IF decreased
                      THEN << node.owed[t][1] + events[pos + 1].event.amount0,
                              node.owed[t][2] + events[pos + 1].event.amount1 >>
                      ELSE node.owed[t]
          IN  (~ position_info[t][n].closed /\ position_info'[t][n].closed) =>
                 LET p == position_info'[t][n]
                 IN  /\ status' \in { "loop", "done" } =>
                          /\ p.fees_earned_token =
                                IF pool_config.clanker_is_token0 THEN owed[1] ELSE owed[2]
                          /\ p.fees_earned_weth =
                                IF pool_config.clanker_is_token0 THEN owed[2] ELSE owed[1]
                          /\ PnLOf(p)
                     /\ ( /\ p.weth_amount_out > 0
                          /\ p.token_amount_out + p.fees_earned_token = 0 ) => PnLOf(p) ]_vars

\* C30 witness: in a finished run one segment was closed with nothing of the
\* base token to sell and a negative gain in the base token, and one was closed
\* with a simulated sale and a positive gain after the sale
C30_Witness ==
    /\ status = "done"
    /\ \E t \in DOMAIN position_info : \E i \in 1..Len(position_info[t]) :
          LET p == position_info[t][i]
          IN  /\ p.closed
              /\ p.weth_amount_out > 0
              /\ p.token_amount_out + p.fees_earned_token = 0
              /\ p.end_token_gain_separate < 0
    /\ \E t \in DOMAIN position_info : \E i \in 1..Len(position_info[t]) :
          LET p == position_info[t][i]
          IN  /\ p.liquidity_in > 0
              /\ p.token_amount_out + p.fees_earned_token > 0
              /\ p.end_weth_gain_converted > 0

\* the loop is about to take a Mint fused with an IncreaseLiquidity whose
\* recorded token id is not mapped
FreshMintFused ==
    /\ MintFused
    /\ events[pos + 1].event.tokenId \notin DOMAIN token_id_map

\* C31: a fresh mint that goes on opens its segment with approx_starting_weth =
\* sim_sell(token_amount_in) + weth_amount_in, the sale being quoted by the node
\* as it is after the mint, except for the first mint on the pool, where it is
\* weth_amount_in alone.
C31_StartingValue ==
    [][ (FreshMintFused /\ status' = "loop") =>
          LET p == position_info'[node.next_id][1]
              first_mint == Len(node.liq) = 0
              sim_sell == IF p.token_amount_in = 0 THEN 0
                          ELSE node_quote(node', p.token_amount_in)
          IN  p.approx_starting_weth =
                 (IF first_mint THEN 0 ELSE sim_sell) + p.weth_amount_in ]_vars

\* C31, where it fails: with no swap since the pool was created, a second
\* position was minted with a non-zero amount of the base token and its starting
\* value is its weth_amount_in alone
C31_SecondMintNotConverted ==
    /\ status = "loop"
    /\ node.fee_growth0 = 0 /\ node.fee_growth1 = 0
    /\ 2 \in DOMAIN position_info
    /\ node.liq[1] > 0
    /\ position_info[2][1].position_action = "Open"
    /\ position_info[2][1].token_amount_in > 0
    /\ position_info[2][1].approx_starting_weth = position_info[2][1].weth_amount_in

-----------------------------------------------------------------------------
\* The bootstrapper (chain_interactions/mod.rs): deploy_and_initialize_pool
\* and the deployment loop of deploy_clanker_token, one node request at a time.

\* the addresses a contract can have, and the deployments the model follows
MaxAddress == 4
MaxDeploys == 3
Addresses == 1..MaxAddress
SqrtPrices == { 9, 10 }

\* the recorded PoolCreated events: the factory records the two tokens of a
\* pool in address order, and one of them is WETH
PoolCreatedEvents(weth) ==
    { e \in [type : { "PoolCreated" }, token0 : Addresses, token1 : Addresses] :
         /\ e.token0 < e.token1
         /\ weth \in { e.token0, e.token1 } }

\* let clanker_token_address = if pool_create_event.token0 == weth { token1 } else { token0 }
clanker_token_address(e, weth) == IF e.token0 = weth THEN e.token1 ELSE e.token0

\* deploy_clanker_token accepts any surrogate
same_side_any(weth, target_address, address) == TRUE

\* if (weth < target_address) == (&weth < contract.address()) { break; }
same_side(weth, target_address, address) ==
    (weth < target_address) = (weth < address)

\* the (token0, token1) handed to createPool
sort_tokens(e, weth, clanker) ==
    IF e.token0 = weth THEN << weth, clanker >> ELSE << clanker, weth >>

\* UniswapV3Factory.createPool: the pool's token0 is the lower address
factory_create_pool(tokenA, tokenB) ==
    IF tokenA < tokenB THEN [token0 |-> tokenA, token1 |-> tokenB, sqrtPriceX96 |-> 0]
    ELSE [token0 |-> tokenB, token1 |-> tokenA, sqrtPriceX96 |-> 0]

NoPool == [token0 |-> 0, token1 |-> 0, sqrtPriceX96 |-> 0]

InitBoot ==
    /\ input_files = files_of(<< >>, "perblock")
    /\ events = << >>
    /\ pos = 1
    /\ status = "loop"
    /\ err = ""
    /\ pool_config = [clanker_is_token0 |-> FALSE]
    /\ token_id_map = << >>
    /\ position_info = << >>
    /\ node = NodeInit
    /\ last_tx = NoTx
    /\ last_op = << >>
    /\ processed = << >>
    /\ write_called = FALSE
    /\ output = << >>
    /\ build = "debug"
    /\ \E weth \in Addresses, sqrt \in SqrtPrices :
       \E e \in PoolCreatedEvents(weth) :
          call = [prim |-> "deploy_and_initialize_pool", pc |-> "deploy", weth |-> weth,
                  pool_create_event |-> e,
                  initialization_event |-> [type |-> "Initialize", sqrtPriceX96 |-> sqrt],
                  target_address |-> clanker_token_address(e, weth),
                  contract |-> 0, deploys |-> 0, pool |-> NoPool, log |-> 0,
                  result |-> "none"]

\* one turn of the loop of deploy_clanker_token: the deployment fails, or the
\* contract gets some unused address and the loop ends if it lies on the same
\* side of WETH as the original
DeployClankerToken ==
    /\ call.prim = "deploy_and_initialize_pool"
    /\ call.pc = "deploy"
    /\ call.deploys < MaxDeploys
    /\ \/ call' = [call EXCEPT !.pc = "done", !.result = "error",
                               !.deploys = @ + 1]
       \/ \E address \in Addresses \ { call.weth } :
             call' = [call EXCEPT !.contract = address, !.deploys = @ + 1,
                                  !.pc = IF same_side(call.weth, call.target_address, address)
                                         THEN "createPool" ELSE "deploy"]
    /\ UNCHANGED main_vars

\* uniswap_factory.createPool(token0, token1, fee), then getPool
CreatePool ==
    /\ call.prim = "deploy_and_initialize_pool"
    /\ call.pc = "createPool"
    /\ LET t == sort_tokens(call.pool_create_event, call.weth, call.contract)
       IN  \/ call' = [call EXCEPT !.pc = "done", !.result = "error"]
           \/ call' = [call EXCEPT !.pool = factory_create_pool(t[1], t[2]),
                                   !.pc = "initialize"]
    /\ UNCHANGED main_vars

\* pool.initialize(initialization_event.sqrtPriceX96) and the comparison of
\* its log with the recorded event: a failed receipt, a receipt without an
\* Initialize log, or a log with some price
InitializePool ==
    /\ call.prim = "deploy_and_initialize_pool"
    /\ call.pc = "initialize"
    /\ \/ call' = [call EXCEPT !.pc = "done", !.result = "error"]
       \/ \E logged \in SqrtPrices :
             call' = [call EXCEPT
                        !.pool.sqrtPriceX96 = call.initialization_event.sqrtPriceX96,
                        !.log = logged,
                        !.pc = "done",
                        !.result = IF logged # call.initialization_event.sqrtPriceX96
                                   THEN "error" ELSE "ok"]
    /\ UNCHANGED main_vars

NextBoot ==
    \/ DeployClankerToken
    \/ CreatePool
    \/ InitializePool

SpecBoot == InitBoot /\ [][NextBoot]_vars

\* C32: once deploy_clanker_token has returned, the surrogate lies on the same
\* side of WETH as the original token; a surrogate on the other side is
\* followed by another deployment, however many there have been; a bootstrap
\* that succeeds has a pool with WETH as token0 exactly if the recorded
\* PoolCreated has, initialized at the recorded sqrtPriceX96, and a log with
\* another price ends it with an error.
C32_Bootstrap ==
    /\ call.pc \in { "createPool", "initialize" } \/ call.pool # NoPool =>
          (call.weth < call.target_address) = (call.weth < call.contract)
    /\ call.pc = "deploy" /\ call.contract # 0 =>
          (call.weth < call.target_address) # (call.weth < call.contract)
    /\ call.pc = "deploy" => call.result = "none"
    /\ call.pool # NoPool =>
          /\ (call.pool.token0 = call.weth) = (call.pool_create_event.token0 = call.weth)
          /\ (call.pool.token1 = call.weth) = (call.pool_create_event.token1 = call.weth)
    /\ call.result = "ok" =>
          /\ call.pool.sqrtPriceX96 = call.initialization_event.sqrtPriceX96
          /\ call.log = call.initialization_event.sqrtPriceX96
    /\ call.log \notin { 0, call.initialization_event.sqrtPriceX96 } =>
          call.result = "error"

\* C32: a bootstrap that needed every deployment the model follows, with the
\* surrogate at another address than the original
C32_Witness ==
    /\ call.prim = "deploy_and_initialize_pool"
    /\ call.result = "ok"
    /\ call.deploys = MaxDeploys
    /\ call.contract # call.target_address

-----------------------------------------------------------------------------
\* Progress: every request to the node returns, so that a step that can be
\* taken is taken.
\* The process from its start: main reads the configuration that names the
\* input files before it builds the analyzer.
InitFair ==
    /\ input_files = files_of(<< >>, "perblock")
    /\ events = << >>
    /\ pos = 1
    /\ status = "start"
    /\ err = ""
    /\ pool_config = [clanker_is_token0 |-> FALSE]
    /\ token_id_map = << >>
    /\ position_info = << >>
    /\ node = NodeInit
    /\ last_tx = NoTx
    /\ last_op = << >>
    /\ processed = << >>
    /\ write_called = FALSE
    /\ output = << >>
    /\ build = "debug"
    /\ call = NoCall

\* main: the input files and the build are those of this run
LoadConfig ==
    /\ status = "start"
    /\ status' = "init"
    /\ \E s \in Streams, mode \in KeyModes : input_files' = files_of(s, mode)
    /\ build' \in Builds
    /\ UNCHANGED << call, events, pos, err, pool_config, token_id_map, position_info, node,
                    last_tx, last_op, processed, write_called, output >>

NextFair ==
    \/ LoadConfig
    \/ Next

\* the request or the computation the run is waiting for returns: the run moves
\* on to another status or to a later event
Returns ==
    /\ status \notin { "done", "error", "panic" }
    /\ status' \in { "init", "ready", "loop", "done", "error", "panic" }
    /\ pos' \in pos..(pos + 2)
    /\ status' # status \/ pos' # pos

SpecFair == InitFair /\ [][NextFair]_vars /\ WF_<< status, pos >>(Returns)

\* the run is over: the output was written, or the run was given up with an
\* error or a panic
Terminated == status \in { "done", "error", "panic" }

Consumed == 1..(IF pos - 1 < Len(events) THEN pos - 1 ELSE Len(events))

\* the events that went through the match of the loop, alone or peeked
Dispatched == { processed[k] : k \in 1..Len(processed) }

\* C34: once the run is in or past the loop, every Mint, Burn and Swap the
\* iterator has given out went through the arms of the loop, and the events
\* that did not are a PoolCreated and an Initialize.
C34_NoEventDropped ==
    status \in { "loop", "done", "error", "panic" } /\ pos > 1 =>
        \A i \in Consumed \ Dispatched :
            /\ events[i].event.type \notin { "Mint", "Burn", "Swap" }
            /\ events[i].event.type \in { "PoolCreated", "Initialize" }

\* C34, where it fails: a run completed with its output written although a
\* Mint, a Burn or a Swap at the head of the sorted stream was never dispatched
C34_ReplayedEventSkipped ==
    /\ status = "done"
    /\ write_called
    /\ \E i \in 1..2 :
          /\ i \notin Dispatched
          /\ events[i].event.type \in { "Mint", "Burn", "Swap" }

\* C35: between two events, the recorded token ids of token_id_map are mapped
\* one to one onto the keys of the ledger, every key holds at least one
\* segment, and every segment carries the simulated id it is filed under and the
\* recorded id mapped to it.
C35_MapLedgerConsistent ==
    status = "loop" =>
        /\ \A r \in DOMAIN token_id_map :
              /\ token_id_map[r] \in DOMAIN position_info
              /\ Len(position_info[token_id_map[r]]) > 0
        /\ \A t \in DOMAIN position_info :
              \E r \in DOMAIN token_id_map : token_id_map[r] = t
        /\ \A r1, r2 \in DOMAIN token_id_map :
              token_id_map[r1] = token_id_map[r2] => r1 = r2
        /\ \A r \in DOMAIN token_id_map :
              \A i \in 1..Len(position_info[token_id_map[r]]) :
                  /\ position_info[token_id_map[r]][i].token_id = token_id_map[r]
                  /\ position_info[token_id_map[r]][i].original_token_id = r

\* C35: two recorded ids are mapped, each to a list of its own, and one of the
\* lists has more than one segment
C35_Witness ==
    /\ status = "loop"
    /\ 11 \in DOMAIN token_id_map
    /\ 12 \in DOMAIN token_id_map
    /\ token_id_map[11] # token_id_map[12]
    /\ \E r \in DOMAIN token_id_map : Len(position_info[token_id_map[r]]) > 1

\* segment q continues segment p
Continues(p, q) ==
    /\ q.block_in = p.block_out
    /\ q.sqrt_price_limit_x96_in = p.sqrt_price_limit_x96_out
    /\ q.tick_in = p.tick_out
    /\ q.lower_tick = p.lower_tick
    /\ q.upper_tick = p.upper_tick
    /\ q.original_token_id = p.original_token_id

\* C36: a step that takes an increase or a decrease of an existing position
\* and leaves an IncreaseLiquidity or DecreaseLiquidity segment at the end of
\* the list has closed the segment before it at the block of the Mint or Burn it
\* took, with the pool's price and tick at that moment, and the new segment starts
\* at that block, price and tick, with the tick range and the recorded id of the
\* segment before it; every such pair of the ledger stays that way.
C36_BoundaryContinuity ==
    /\ [][ (IncreaseOfExisting \/ DecreaseOfExisting) =>
             LET t == token_id_map[events[pos + 1].event.tokenId]
                 n == Len(position_info[t])
             IN  ( /\ Len(position_info'[t]) = n + 1
                   /\ position_info'[t][n + 1].position_action \in
                         { "IncreaseLiquidity", "DecreaseLiquidity" } )
                 => /\ Continues(position_info'[t][n], position_info'[t][n + 1])
                    /\ position_info'[t][n].block_out = events[pos].block
                    /\ position_info'[t][n].tick_out = node'.tick
                    /\ position_info'[t][n].closed
                    /\ ~position_info'[t][n + 1].closed ]_vars
    /\ [](\A t \in DOMAIN position_info :
            \A i \in 2..Len(position_info[t]) :
               position_info[t][i].position_action \in
                  { "IncreaseLiquidity", "DecreaseLiquidity" }
               => Continues(position_info[t][i - 1], position_info[t][i]))

\* C36: after a swap has moved the tick, a segment opened by an increase or a
\* partial decrease follows, in a later block, a segment closed at the new tick
C36_Witness ==
    \E t \in DOMAIN position_info :
        /\ Len(position_info[t]) = 2
        /\ position_info[t][2].position_action \in
              { "IncreaseLiquidity", "DecreaseLiquidity" }
        /\ position_info[t][1].tick_out # position_info[t][1].tick_in
        /\ position_info[t][2].tick_in # 0
        /\ position_info[t][2].block_in > position_info[t][1].block_in

\* C37: a step that takes a partial decrease of an existing position, mined and
\* verified, does not end in a panic, and when it goes on the new segment starts
\* with the amounts in of the segment before it less the amounts of the
\* DecreaseLiquidity event, base token first.
C37_ResidualAmounts ==
    [][ DecreaseOfExisting =>
          LET dl == events[pos + 1].event
              t == token_id_map[dl.tokenId]
              n == Len(position_info[t])
              p == position_info[t][n]
              dl_out == oriented(pool_config, dl.amount0, dl.amount1)
          IN  ( /\ last_tx'.op = "burn"
                /\ last_tx'.verified
                /\ last_tx' # last_tx
                /\ dl.liquidity # p.liquidity_in )
              => /\ status' # "panic"
                 /\ status' = "loop" =>
                       /\ Len(position_info'[t]) = n + 1
                       /\ position_info'[t][n + 1].position_action = "DecreaseLiquidity"
                       /\ position_info'[t][n + 1].token_amount_in =
                             p.token_amount_in - dl_out[1]
                       /\ position_info'[t][n + 1].weth_amount_in =
                             p.weth_amount_in - dl_out[2] ]_vars

\* C37, where it fails: the run has ended in the panic of one of the two checked
\* subtractions of the residual amounts
C37_ResidualPanic ==
    /\ status = "panic"
    /\ err \in { "token decrease larger than starting token amount",
                 "weth decrease larger than starting weth amount" }
    /\ last_tx.op = "burn"
    /\ last_tx.verified

\* C38: no run ends with the error of the finalization loop that finds a second
\* open segment under one token id: in every state the open segments of a list
\* are at most its last one.
C38_NoSecondOpenSegment ==
    /\ err # "Multiple positions found for token id"
    /\ \A t \in DOMAIN position_info :
          \A i \in 1..(Len(position_info[t]) - 1) : position_info[t][i].closed

\* C38: the finalization loop has gone through a list of several segments and
\* closed its last one, the only one that was open
C38_Witness ==
    /\ status = "done"
    /\ \E t \in DOMAIN position_info :
          LET n == Len(position_info[t])
          IN  /\ n >= 2
              /\ position_info[t][n].closed
              /\ position_info[t][n].block_out = 0
              /\ position_info[t][n].position_action # "ClosePosition"

\* C39: between two events, the open segment of every token id of the ledger
\* has the liquidity the node holds for that position.
C39_LedgerAgreesWithNode ==
    status = "loop" =>
        \A t \in DOMAIN position_info :
            LET n == Len(position_info[t])
            IN  ~position_info[t][n].closed =>
                   position_info[t][n].liquidity_in = node.liq[t]

\* C39, where it fails: a debug build, where no sum has wrapped, is between two
\* events after a verified increase, and the open segment's liquidity is not
\* the node's
C39_LedgerAheadOfNode ==
    /\ status = "loop"
    /\ build = "debug"
    /\ last_tx.op = "increase"
    /\ last_tx.verified
    /\ \E t \in DOMAIN position_info :
          LET n == Len(position_info[t])
          IN  /\ ~position_info[t][n].closed
              /\ position_info[t][n].position_action = "IncreaseLiquidity"
              /\ position_info[t][n].liquidity_in # node.liq[t]

-----------------------------------------------------------------------------
\* The event model on its own (simulation_events.rs): find_first_event on a
\* list of envelopes, then the conversion of the envelope found.

\* the payloads of the lists: two variants twice, the others once
Payloads == { PoolCreated(TRUE), PoolCreated(FALSE), Initialize, Mint(1), Mint(2),
              Burn(1), Swap, CollectPool, CollectNpm, IncreaseLiquidity(11, 1, 1),
              DecreaseLiquidity(11, 1) }

RECURSIVE Lists(_)
Lists(n) ==
    IF n = 0 THEN { << >> }
    ELSE Lists(n - 1) \cup { Append(l, x) : l \in { m \in Lists(n - 1) : Len(m) = n - 1 },
                                            x \in Payloads }

InitEvents ==
    /\ input_files = files_of(<< >>, "perblock")
    /\ events = << >>
    /\ pos = 1
    /\ status = "loop"
    /\ err = ""
    /\ pool_config = [clanker_is_token0 |-> FALSE]
    /\ token_id_map = << >>
    /\ position_info = << >>
    /\ node = NodeInit
    /\ last_tx = NoTx
    /\ last_op = << >>
    /\ processed = << >>
    /\ write_called = FALSE
    /\ output = << >>
    /\ build = "debug"
    /\ \E l \in Lists(MaxItems), t \in { "PoolCreated", "Initialize", "Mint", "Swap" } :
          call = [prim |-> "find_first_event", pc |-> "find",
                  events |-> keyed(l, "perblock"), event_type |-> t, found |-> 0,
                  variant |-> "None", result |-> [ok |-> TRUE, err |-> ""]]

\* find_first_event(&events, event_type)
FindFirstEvent ==
    /\ call.prim = "find_first_event"
    /\ call.pc = "find"
    /\ LET i == find_first_event(call.events, call.event_type)
       IN  call' = IF i = 0
                   THEN [call EXCEPT !.pc = "done",
                                     !.result = [ok |-> FALSE, err |-> "Event not found"]]
                   ELSE [call EXCEPT !.pc = "convert", !.found = i]
    /\ UNCHANGED main_vars

\* event.try_into() for some payload type
TryFrom ==
    /\ call.prim = "find_first_event"
    /\ call.pc = "convert"
    /\ \E variant \in EventType :
          call' = [call EXCEPT !.pc = "done", !.variant = variant,
                               !.result = try_from(call.events[call.found], variant)]
    /\ UNCHANGED main_vars

NextEvents ==
    \/ FindFirstEvent
    \/ TryFrom

SpecEvents == InitEvents /\ [][NextEvents]_vars

\* C40: find_first_event answers with the first event of the list whose
\* variant is the one asked for, and with the error "Event not found" exactly
\* when the list has none; the conversion of an envelope to a payload type
\* gives the payload exactly when the payload is of that variant, and the error
\* of that type otherwise.
C40_EventLookup ==
    /\ call.pc # "find" =>
          LET matches == { i \in 1..Len(call.events) :
                              call.events[i].event.type = call.event_type }
          IN  /\ call.found = 0 <=> matches = { }
              /\ call.found = 0 <=>
                    call.pc = "done" /\ call.result.err = "Event not found"
              /\ call.found # 0 =>
                    /\ call.found \in matches
                    /\ \A i \in matches : call.found <= i
    /\ call.pc = "done" /\ call.found # 0 =>
          LET payload == call.events[call.found].event
          IN  /\ call.result.ok <=> payload.type = call.variant
              /\ call.result.ok => call.result.value = payload
              /\ ~call.result.ok =>
                    /\ call.result.err = "Event is not " \o call.variant
                    /\ call.result.value # payload

\* C40: the second of three events was found, the third being of the same
\* variant with another payload, and its conversion to another type was refused
C40_Witness ==
    /\ call.prim = "find_first_event"
    /\ call.pc = "done"
    /\ call.found = 2
    /\ Len(call.events) = 3
    /\ call.events[3].event.type = call.event_type
    /\ call.events[3].event # call.events[2].event
    /\ ~call.result.ok
    /\ call.result.err = "Event is not Burn"

====
